---- MODULE Spec2Model ----
(***************************************************************************)
(* A model of the AI group manager bot: the knowledge store               *)
(* (database.js, table learned_responses), the response cache and the     *)
(* similarity matcher (aiService.js), and the message handlers of bot.js. *)
(*                                                                         *)
(* bot.js holds two definitions of class AIGroupManagerBot.  The first    *)
(* (lines 7-627) configures a group with /quicksetup; the second (lines   *)
(* 640-1216) configures it with a private multi-turn dialogue.  Both open *)
(* the same bot_database.db, so the tables outlive a restart of the       *)
(* process with either definition; botVersion says which one is running.  *)
(*                                                                         *)
(* Text is a sequence of one-character strings.  A confidence is kept in  *)
(* hundredths (1.0 is 100, 0.15 is 15); the stored value is compared with *)
(* the thresholds exactly as the SQL and the handlers compare it.          *)
(***************************************************************************)
EXTENDS Integers, Sequences, FiniteSets, TLC

VARIABLES
    botVersion,         \* 1 | 2: the definition of the class that is running
    groups,             \* table groups: group_id -> row
    learned_responses,  \* table learned_responses: id -> row
    nextId,             \* the next AUTOINCREMENT id of learned_responses
    outbox,             \* the last message handed to the transport
    setupStates,        \* bot.js (2nd): this.setupStates, a Map
    setupButtons,       \* "DONE" buttons posted in groups: payloads setup_<user>_<group>
    fed,                \* per user: the group of the button pressed and the private texts sent since
    conversationCache,  \* aiService.js: this.conversationCache, groupId -> array
    now,                \* Date.now(), in milliseconds
    putLog,             \* per group: every entry ever passed to cacheResponse, in order
    cacheOut,           \* the last getCachedResponse call, when it was made and what it returned
    simA, simB,         \* the arguments of calculateSimilarity
    simOut,             \* the last result of calculateSimilarity
    trigIn,             \* the message and group handed to shouldRespond
    trigOut,            \* the last decision of shouldRespond: "respond" | "ignore"
    inbox,              \* the last group message handed to handleMessage
    lastTaught,         \* the id of the row addLearnedResponse wrote last (0: none)
    teaching,           \* the addLearnedResponse calls between their SELECT and their write
    feedback,           \* an answer with its two buttons and the handleFeedback calls under way
    flow                \* the handleSetupFlow calls between their awaits

botVars == <<botVersion, groups, learned_responses, nextId, outbox, lastTaught>>
setupVars == <<setupStates, setupButtons, fed>>
cacheVars == <<conversationCache, now, putLog, cacheOut>>
simVars == <<simA, simB, simOut>>
trigVars == <<trigIn, trigOut>>
asyncVars == <<feedback, flow>>
vars == <<botVars, setupVars, cacheVars, simVars, trigVars, inbox, teaching, asyncVars>>

None == "none"

(***************************************************************************)
(* Text                                                                    *)
(***************************************************************************)
\* One character of String.prototype.toLowerCase / SQL LOWER(): the ASCII
\* capitals map to their small letters, every other character to itself.
LowerChar(c) ==
    CASE c = "A" -> "a" [] c = "B" -> "b" [] c = "C" -> "c" [] c = "D" -> "d"
      [] c = "E" -> "e" [] c = "F" -> "f" [] c = "G" -> "g" [] c = "H" -> "h"
      [] c = "I" -> "i" [] c = "J" -> "j" [] c = "K" -> "k" [] c = "L" -> "l"
      [] c = "M" -> "m" [] c = "N" -> "n" [] c = "O" -> "o" [] c = "P" -> "p"
      [] c = "Q" -> "q" [] c = "R" -> "r" [] c = "S" -> "s" [] c = "T" -> "t"
      [] c = "U" -> "u" [] c = "V" -> "v" [] c = "W" -> "w" [] c = "X" -> "x"
      [] c = "Y" -> "y" [] c = "Z" -> "z" [] OTHER -> c

toLowerCase(s) == [i \in 1..Len(s) |-> LowerChar(s[i])]

\* String.prototype.includes: needle occurs in s as a literal substring.
includes(s, needle) ==
    \E i \in 0..(Len(s) - Len(needle)) :
        \A k \in 1..Len(needle) : s[i + k] = needle[k]

\* String.prototype.split on a one-character separator.
RECURSIVE split(_, _)
split(s, sep) ==
    IF \A i \in 1..Len(s) : s[i] # sep
    THEN <<s>>
    ELSE LET i == CHOOSE j \in 1..Len(s) :
                      s[j] = sep /\ \A k \in 1..(j - 1) : s[k] # sep
         IN <<SubSeq(s, 1, i - 1)>> \o split(SubSeq(s, i + 1, Len(s)), sep)

\* String.prototype.trim (the only white space of the model is the blank).
RECURSIVE trim(_)
trim(s) ==
    IF s = <<>> THEN s
    ELSE IF Head(s) = " " THEN trim(Tail(s))
    ELSE IF s[Len(s)] = " " THEN trim(SubSeq(s, 1, Len(s) - 1))
    ELSE s

\* Array.prototype.map over a sequence of texts with trim.
mapTrim(parts) == [i \in 1..Len(parts) |-> trim(parts[i])]

\* The SQL operator  text LIKE pattern  of SQLite: '%' matches any run of
\* characters, '_' matches any one character, letters match without case.
RECURSIVE Like(_, _)
Like(text, pattern) ==
    IF pattern = <<>> THEN text = <<>>
    ELSE IF Head(pattern) = "%"
         THEN Like(text, Tail(pattern))
              \/ (text # <<>> /\ Like(Tail(text), pattern))
         ELSE /\ text # <<>>
              /\ (Head(pattern) = "_"
                  \/ LowerChar(Head(pattern)) = LowerChar(Head(text)))
              /\ Like(Tail(text), Tail(pattern))

(***************************************************************************)
(* SimilarityMatcher (aiService.js)                                        *)
(***************************************************************************)
Min3(a, b, c) ==
    IF a <= b /\ a <= c THEN a ELSE IF b <= c THEN b ELSE c

\* Row i of the matrix of levenshteinDistance, columns 0..j filled:
\* prev is row i - 1, ch is str2.charAt(i - 1).
RECURSIVE levRow(_, _, _, _, _)
levRow(prev, str1, ch, i, j) ==
    IF j = 0 THEN (0 :> i)
    ELSE LET left == levRow(prev, str1, ch, i, j - 1)
         IN left @@ (j :> IF ch = str1[j]
                          THEN prev[j - 1]
                          ELSE Min3(prev[j - 1] + 1, left[j - 1] + 1, prev[j] + 1))

RECURSIVE levMatrixRow(_, _, _)
levMatrixRow(str1, str2, i) ==
    IF i = 0 THEN [j \in 0..Len(str1) |-> j]
    ELSE levRow(levMatrixRow(str1, str2, i - 1), str1, str2[i], i, Len(str1))

\* A plausible slip: the insertion branch costs 2.
RECURSIVE levRowSkewed(_, _, _, _, _)
levRowSkewed(prev, str1, ch, i, j) ==
    IF j = 0 THEN (0 :> i)
    ELSE LET left == levRowSkewed(prev, str1, ch, i, j - 1)
         IN left @@ (j :> IF ch = str1[j]
                          THEN prev[j - 1]
                          ELSE Min3(prev[j - 1] + 1, left[j - 1] + 2, prev[j] + 1))

RECURSIVE levMatrixRowSkewed(_, _, _)
levMatrixRowSkewed(str1, str2, i) ==
    IF i = 0 THEN [j \in 0..Len(str1) |-> j]
    ELSE levRowSkewed(levMatrixRowSkewed(str1, str2, i - 1), str1, str2[i], i, Len(str1))

levenshteinDistanceSkewed(str1, str2) ==
    levMatrixRowSkewed(str1, str2, Len(str2))[Len(str1)]

levenshteinDistance(str1, str2) ==
    levMatrixRow(str1, str2, Len(str2))[Len(str1)]

\* A ratio num/den; calculateSimilarity returns a JavaScript number.
Ratio(n, d) == [num |-> n, den |-> d]
RatioEq(x, y) == x.num * y.den = y.num * x.den
\* x > p/q
RatioGt(x, p, q) == x.num * q > p * x.den

\* A plausible slip: divides by the first argument's length.
calculateSimilarityByFirst(str1, str2) ==
    LET longer  == IF Len(str1) > Len(str2) THEN str1 ELSE str2
        shorter == IF Len(str1) > Len(str2) THEN str2 ELSE str1
    IN IF Len(longer) = 0 THEN Ratio(1, 1)
       ELSE Ratio(Len(str1) - levenshteinDistance(longer, shorter),
                  IF Len(str1) = 0 THEN 1 ELSE Len(str1))

calculateSimilarity(str1, str2) ==
    LET longer  == IF Len(str1) > Len(str2) THEN str1 ELSE str2
        shorter == IF Len(str1) > Len(str2) THEN str2 ELSE str1
    IN IF Len(longer) = 0 THEN Ratio(1, 1)
       ELSE Ratio(Len(longer) - levenshteinDistance(longer, shorter), Len(longer))

(***************************************************************************)
(* Program constants                                                       *)
(***************************************************************************)
CONF_INITIAL == 100       \* confidence REAL DEFAULT 1.0 / confidence = 1.0
CONF_GOOD_STEP == 10      \* isGood ? 0.1
CONF_BAD_STEP == 15       \* : -0.15
CONF_RETRIEVE == 50       \* confidence > 0.5
CONF_TRUST == 70          \* learnedResponse.confidence > 0.7
CACHE_LIMIT == 50         \* cache.length > 50
HOUR_MS == 3600000        \* (Date.now() - match.timestamp) < 3600000

(***************************************************************************)
(* Bounds of the model                                                     *)
(***************************************************************************)
MaxId == 3                \* rows ever inserted into learned_responses
MaxUsage == 1             \* cap of usage_count
MaxSimLen == 3            \* longest argument of calculateSimilarity
MaxFill == 52             \* completions cached in SpecCacheFill
MaxPuts == 2              \* completions cached in SpecCache
MaxTicks == 3             \* half hours that pass in SpecCache
MaxFed == 4               \* private texts followed after a button press

(***************************************************************************)
(* Texts the handlers are fed                                              *)
(***************************************************************************)
T_hi == <<"h","i">>
T_Hi == <<"H","i">>
T_yo == <<"y","o">>
T_a == <<"a">>
T_b == <<"b">>
BotUsername == <<"b","o","t">>
Mention == <<"@">> \o BotUsername

Groups == {1, 2}
Users == {1, 2}
Statuses == {"administrator", "creator", "member"}

\* A plausible slip: members pass the test for administrators.
isAdminStatusOrMember(status) == status \in {"administrator", "creator", "member"}

isAdminStatus(status) == status \in {"administrator", "creator"}

\* A column or field that may be NULL / undefined.
Null == [null |-> TRUE, value |-> <<>>]
Val(x) == [null |-> FALSE, value |-> x]

(***************************************************************************)
(* Table groups (database.js)                                              *)
(***************************************************************************)
\* addGroup: INSERT OR IGNORE INTO groups (group_id, group_name).
addGroup(tbl, groupId) ==
    IF groupId \in DOMAIN tbl THEN tbl
    ELSE tbl @@ (groupId :> [purpose |-> Null, tone |-> Null, rules |-> Null,
                             triggers |-> Null, setup_complete |-> FALSE,
                             paused |-> FALSE])

\* getGroup: the rows found (none or one).  rules and triggers are stored
\* with JSON.stringify and read back with JSON.parse, which returns an array
\* of strings as it was.
getGroup(tbl, groupId) ==
    IF groupId \in DOMAIN tbl THEN {tbl[groupId]} ELSE {}

\* updateGroupConfig: UPDATE groups SET ... setup_complete = 1 WHERE group_id = ?
updateGroupConfig(tbl, groupId, config) ==
    IF groupId \in DOMAIN tbl
    THEN [tbl EXCEPT ![groupId] =
             [@ EXCEPT !.purpose = config.purpose, !.tone = config.tone,
                       !.rules = config.rules, !.triggers = config.triggers,
                       !.setup_complete = TRUE]]
    ELSE tbl

\* togglePause: UPDATE groups SET paused = ? WHERE group_id = ?
togglePause(tbl, groupId, paused) ==
    IF groupId \in DOMAIN tbl
    THEN [tbl EXCEPT ![groupId] = [@ EXCEPT !.paused = paused]]
    ELSE tbl

(***************************************************************************)
(* Table learned_responses (database.js)                                   *)
(***************************************************************************)
Min(S) == CHOOSE x \in S : \A y \in S : x <= y

\* The rows of the SELECT of addLearnedResponse.
existingIds(tbl, groupId, question) ==
    {id \in DOMAIN tbl : /\ tbl[id].group_id = groupId
                         /\ toLowerCase(tbl[id].question) = toLowerCase(question)}

\* A plausible slip: the question is compared with its case kept.
addLearnedResponseCaseKept(tbl, nid, groupId, question, answer, source) ==
    LET found == {id \in DOMAIN tbl : /\ tbl[id].group_id = groupId
                                      /\ tbl[id].question = question}
    IN IF found # {}
       THEN [rows |-> [tbl EXCEPT ![Min(found)] =
                          [@ EXCEPT !.answer = answer, !.confidence = CONF_INITIAL,
                                    !.learned_from = source]],
             nextId |-> nid]
       ELSE [rows |-> tbl @@ (nid :> [group_id |-> groupId, question |-> question,
                                      answer |-> answer, confidence |-> CONF_INITIAL,
                                      learned_from |-> source, usage_count |-> 0]),
             nextId |-> nid + 1]

\* The second statement of addLearnedResponse, given what its SELECT
\* returned (existing: the id found, 0 when none): UPDATE ... WHERE id = ?,
\* which changes nothing when the row is gone, or INSERT.
addLearnedResponseWrite(tbl, nid, existing, groupId, question, answer, source) ==
    IF existing # 0
    THEN [rows |-> IF existing \in DOMAIN tbl
                   THEN [tbl EXCEPT ![existing] =
                            [@ EXCEPT !.answer = answer, !.confidence = CONF_INITIAL,
                                      !.learned_from = source]]
                   ELSE tbl,
          nextId |-> nid]
    ELSE [rows |-> tbl @@ (nid :> [group_id |-> groupId, question |-> question,
                                   answer |-> answer, confidence |-> CONF_INITIAL,
                                   learned_from |-> source, usage_count |-> 0]),
          nextId |-> nid + 1]

\* addLearnedResponse with nothing running between its two statements: the
\* table and the AUTOINCREMENT counter afterwards.  db.get returns the
\* first row of the SELECT (the lowest rowid).
addLearnedResponse(tbl, nid, groupId, question, answer, source) ==
    LET found == existingIds(tbl, groupId, question)
    IN addLearnedResponseWrite(tbl, nid, IF found # {} THEN Min(found) ELSE 0,
                               groupId, question, answer, source)

\* The first SELECT of findLearnedResponse: exact match, confidence > 0.5.
exactMatches(tbl, groupId, question) ==
    {id \in DOMAIN tbl : /\ tbl[id].group_id = groupId
                         /\ toLowerCase(tbl[id].question) = toLowerCase(question)
                         /\ tbl[id].confidence > CONF_RETRIEVE}

\* The second SELECT: LOWER(?) LIKE '%' || LOWER(question) || '%'.
partialMatches(tbl, groupId, question) ==
    {id \in DOMAIN tbl :
        /\ tbl[id].group_id = groupId
        /\ Like(toLowerCase(question),
                <<"%">> \o toLowerCase(tbl[id].question) \o <<"%">>)
        /\ tbl[id].confidence > CONF_RETRIEVE}

\* A plausible slip: the fuzzy SELECT without its confidence condition.
findLearnedResponseAnyConfidence(tbl, groupId, question) ==
    LET exact == exactMatches(tbl, groupId, question)
        part  == {id \in DOMAIN tbl :
                     /\ tbl[id].group_id = groupId
                     /\ Like(toLowerCase(question),
                             <<"%">> \o toLowerCase(tbl[id].question) \o <<"%">>)}
    IN IF exact # {} THEN exact
       ELSE {id \in part : \A o \in part : tbl[o].confidence <= tbl[id].confidence}

\* findLearnedResponse: the ids of the rows the call may return ({}: it
\* returns undefined).  Neither SELECT orders rows of equal rank, so each of
\* them may come first.
findLearnedResponse(tbl, groupId, question) ==
    LET exact == exactMatches(tbl, groupId, question)
        part  == partialMatches(tbl, groupId, question)
    IN IF exact # {} THEN exact
       ELSE {id \in part : \A o \in part : tbl[o].confidence <= tbl[id].confidence}

\* incrementResponseUsage: usage_count = usage_count + 1 (last_used is not kept).
incrementResponseUsage(tbl, responseId) ==
    IF responseId \in DOMAIN tbl
    THEN [tbl EXCEPT ![responseId] = [@ EXCEPT !.usage_count = @ + 1]]
    ELSE tbl

Max2(a, b) == IF a >= b THEN a ELSE b
Min2(a, b) == IF a <= b THEN a ELSE b

\* A plausible slip: the adjustment without MAX(0, MIN(1, ...)).
updateResponseConfidenceUnclamped(tbl, responseId, isGood) ==
    LET adjustment == IF isGood THEN CONF_GOOD_STEP ELSE 0 - CONF_BAD_STEP
    IN IF responseId \in DOMAIN tbl
       THEN [tbl EXCEPT ![responseId] =
                [@ EXCEPT !.confidence = @ + adjustment]]
       ELSE tbl

\* A plausible slip: negative feedback takes as much as positive feedback gives.
updateResponseConfidenceEvenStep(tbl, responseId, isGood) ==
    LET adjustment == IF isGood THEN CONF_GOOD_STEP ELSE 0 - CONF_GOOD_STEP
    IN IF responseId \in DOMAIN tbl
       THEN [tbl EXCEPT ![responseId] =
                [@ EXCEPT !.confidence = Max2(0, Min2(CONF_INITIAL, @ + adjustment))]]
       ELSE tbl

\* A plausible slip: an entry whose confidence falls to 0 is deleted.
updateResponseConfidenceDropsAtZero(tbl, responseId, isGood) ==
    LET adjustment == IF isGood THEN CONF_GOOD_STEP ELSE 0 - CONF_BAD_STEP
    IN IF responseId \in DOMAIN tbl
       THEN IF tbl[responseId].confidence + adjustment <= 0
            THEN [id \in (DOMAIN tbl) \ {responseId} |-> tbl[id]]
            ELSE [tbl EXCEPT ![responseId] =
                     [@ EXCEPT !.confidence = Min2(CONF_INITIAL, @ + adjustment)]]
       ELSE tbl

\* updateResponseConfidence: confidence = MAX(0, MIN(1, confidence + ?)).
updateResponseConfidence(tbl, responseId, isGood) ==
    LET adjustment == IF isGood THEN CONF_GOOD_STEP ELSE 0 - CONF_BAD_STEP
    IN IF responseId \in DOMAIN tbl
       THEN [tbl EXCEPT ![responseId] =
                [@ EXCEPT !.confidence = Max2(0, Min2(CONF_INITIAL, @ + adjustment))]]
       ELSE tbl

\* A plausible slip: the DELETE without its group_id condition.
forgetMatchesAnyGroup(tbl, groupId, keyword) ==
    LET pattern == <<"%">> \o toLowerCase(keyword) \o <<"%">>
    IN {id \in DOMAIN tbl :
           \/ Like(toLowerCase(tbl[id].question), pattern)
           \/ Like(toLowerCase(tbl[id].answer), pattern)}

\* The rows the DELETE of forgetLearnedData removes: the keyword, lower-cased
\* by JavaScript, is put between two '%' and used as a LIKE pattern.
forgetMatches(tbl, groupId, keyword) ==
    LET pattern == <<"%">> \o toLowerCase(keyword) \o <<"%">>
    IN {id \in DOMAIN tbl :
           /\ tbl[id].group_id = groupId
           /\ (Like(toLowerCase(tbl[id].question), pattern)
               \/ Like(toLowerCase(tbl[id].answer), pattern))}

\* forgetLearnedData: the table afterwards and result.changes.
forgetLearnedData(tbl, groupId, keyword) ==
    LET gone == forgetMatches(tbl, groupId, keyword)
    IN [rows |-> [id \in (DOMAIN tbl) \ gone |-> tbl[id]],
        changes |-> Cardinality(gone)]

(***************************************************************************)
(* TriggerEvaluator (bot.js)                                               *)
(***************************************************************************)
\* A message: its text and the message it replies to, if any.
NoReply == [present |-> FALSE, is_bot |-> FALSE, has_text |-> FALSE, text |-> <<>>]
ReplyTo(isBot, text) ==
    [present |-> TRUE, is_bot |-> isBot, has_text |-> TRUE, text |-> text]

\* triggers.some(trigger => text.includes(trigger.toLowerCase()))
someTrigger(triggers, text) ==
    \E k \in 1..Len(triggers) : includes(text, toLowerCase(triggers[k]))

\* triggers.includes('all')
hasAll(triggers) == \E k \in 1..Len(triggers) : triggers[k] = <<"a","l","l">>

\* A plausible slip: the mention is tested after the configured triggers.
shouldRespondMentionLast(msg, group) ==
    LET text == toLowerCase(msg.text)
    IN IF ~group.triggers.null /\ hasAll(group.triggers.value)
          /\ includes(text, <<"?">>) THEN TRUE
       ELSE IF ~group.triggers.null
       THEN someTrigger(group.triggers.value, text)
       ELSE includes(msg.text, Mention)

\* shouldRespond, first definition (bot.js 318-347).
shouldRespond(msg, group) ==
    LET text == toLowerCase(msg.text)
    IN IF includes(msg.text, Mention) THEN TRUE
       ELSE IF msg.reply_to.present /\ msg.reply_to.is_bot THEN TRUE
       ELSE IF ~group.triggers.null /\ hasAll(group.triggers.value)
               /\ includes(text, <<"?">>) THEN TRUE
       ELSE IF ~group.triggers.null
       THEN someTrigger(group.triggers.value, text)
       ELSE FALSE

\* A plausible slip of the second definition: no mention test.
shouldRespond2NoMention(msg, group) ==
    LET text == toLowerCase(msg.text)
    IN IF msg.reply_to.present /\ msg.reply_to.is_bot THEN TRUE
       ELSE IF group.triggers.null THEN FALSE
       ELSE IF hasAll(group.triggers.value) THEN TRUE
       ELSE IF includes(text, <<"?">>) THEN TRUE
       ELSE someTrigger(group.triggers.value, text)

\* shouldRespond, second definition (bot.js 924-942).  group.triggers is
\* read without a test: on a NULL column the call throws and the handler
\* ends without a reply.
shouldRespond2(msg, group) ==
    LET text == toLowerCase(msg.text)
    IN IF includes(msg.text, Mention) THEN TRUE
       ELSE IF msg.reply_to.present /\ msg.reply_to.is_bot THEN TRUE
       ELSE IF group.triggers.null THEN FALSE
       ELSE IF hasAll(group.triggers.value) THEN TRUE
       ELSE IF includes(text, <<"?">>) THEN TRUE
       ELSE someTrigger(group.triggers.value, text)

shouldRespondOf(version, msg, group) ==
    IF version = 1 THEN shouldRespond(msg, group) ELSE shouldRespond2(msg, group)

(***************************************************************************)
(* ResponseCache (aiService.js)                                            *)
(***************************************************************************)
\* this.conversationCache.get(groupId), [] when the Map has no such key.
cacheOf(map, groupId) == IF groupId \in DOMAIN map THEN map[groupId] ELSE << >>

\* A plausible slip: the newest entry is dropped when the array is full.
cacheResponseDropNewest(map, groupId, query, response, t) ==
    LET pushed == Append(cacheOf(map, groupId),
                         [query |-> toLowerCase(query), response |-> response,
                          timestamp |-> t])
        kept == IF Len(pushed) > CACHE_LIMIT
                THEN SubSeq(pushed, 1, Len(pushed) - 1) ELSE pushed
    IN [g \in DOMAIN map \cup {groupId} |-> IF g = groupId THEN kept ELSE map[g]]

\* cacheResponse: push {query.toLowerCase(), response, Date.now()}, then
\* shift() once the array is longer than 50.
cacheResponse(map, groupId, query, response, t) ==
    LET pushed == Append(cacheOf(map, groupId),
                         [query |-> toLowerCase(query), response |-> response,
                          timestamp |-> t])
        kept == IF Len(pushed) > CACHE_LIMIT THEN Tail(pushed) ELSE pushed
    IN [g \in DOMAIN map \cup {groupId} |-> IF g = groupId THEN kept ELSE map[g]]

\* cache.find(item => calculateSimilarity(item.query, normalizedQuery) > 0.8):
\* the indices of the entries that match.
similarEntries(cache, query) ==
    {k \in 1..Len(cache) :
        RatioGt(calculateSimilarity(cache[k].query, toLowerCase(query)), 8, 10)}

\* A plausible slip: the match is returned whatever its age.
getCachedResponseAnyAge(map, groupId, query, t) ==
    LET cache == cacheOf(map, groupId)
        hits == similarEntries(cache, query)
    IN IF hits # {}
       THEN [found |-> TRUE, response |-> cache[Min(hits)].response]
       ELSE [found |-> FALSE, response |-> 0]

\* getCachedResponse: the first matching entry, if it is less than an hour
\* old; null (found = FALSE) otherwise.
getCachedResponse(map, groupId, query, t) ==
    LET cache == cacheOf(map, groupId)
        hits == similarEntries(cache, query)
    IN IF hits # {} /\ (t - cache[Min(hits)].timestamp) < HOUR_MS
       THEN [found |-> TRUE, response |-> cache[Min(hits)].response]
       ELSE [found |-> FALSE, response |-> 0]

(***************************************************************************)
(* Handlers of bot.js                                                      *)
(***************************************************************************)
\* What bot.sendMessage was last called with: the kind of message and the
\* chat; for a reply to a group message, the learned response that
\* findLearnedResponse returned (id, 0 when none) with the confidence read
\* (n), and whether a row matching the text was passed over for its
\* confidence (skipped); for the reply to /forget, the count (n).
\* storeInteraction: INSERT INTO interactions (group_id, question, response,
\* response_source, ...).  The response is kept by the kind of reply it was.
storeInteraction(chatId, question, response, source) ==
    [chat |-> chatId, question |-> question, response |-> response, source |-> source]
NoInteraction == storeInteraction(0, << >>, "none", "none")

\* stored: the row of interactions written for the message (none unless a
\* handler stores one).
Msg(kind, chat, id, n, skipped) ==
    [kind |-> kind, chat |-> chat, id |-> id, n |-> n, skipped |-> skipped,
     stored |-> NoInteraction]
Note(kind, chat) == Msg(kind, chat, 0, 0, FALSE)
NoMsg == Note("nothing", 0)

memoryVars == <<setupStates, setupButtons, fed, conversationCache, now, putLog, cacheOut>>
idleVars == <<simVars, trigVars, inbox, teaching, asyncVars>>

\* The id of the row addLearnedResponse writes: the row found, else the new one.
writtenId(tbl, nid, groupId, question) ==
    IF existingIds(tbl, groupId, question) # {}
    THEN Min(existingIds(tbl, groupId, question)) ELSE nid

\* A row can be added while the model's supply of ids lasts.
canAdd(tbl, nid, groupId, question) ==
    existingIds(tbl, groupId, question) # {} \/ nid <= MaxId

\* rulesStr.toLowerCase() === 'none' ? [] : rulesStr.split(',').map(r => r.trim())
parseRules(rulesStr) ==
    IF toLowerCase(rulesStr) = <<"n","o","n","e">> THEN <<>>
    ELSE mapTrim(split(rulesStr, ","))

\* triggersStr.toLowerCase() === 'all' ? ['all'] : triggersStr.split(',').map(t => t.trim())
parseTriggers(triggersStr) ==
    IF toLowerCase(triggersStr) = <<"a","l","l">> THEN << <<"a","l","l">> >>
    ELSE mapTrim(split(triggersStr, ","))

\* my_chat_member: the bot was given newStatus in group chatId by user `from`.
\* First definition: addGroup, then the instructions.  Second definition:
\* the message with the "DONE" button (payload setup_<from>_<chatId>), then
\* addGroup.
handleChatMemberUpdate(chatId, from, newStatus) ==
    /\ IF newStatus = "administrator"
       THEN /\ groups' = addGroup(groups, chatId)
            /\ outbox' = Note("added", chatId)
            /\ setupButtons' = IF botVersion = 2
                               THEN setupButtons \cup {[user |-> from, group |-> chatId]}
                               ELSE setupButtons
       ELSE /\ outbox' = Note("need_admin", chatId)
            /\ UNCHANGED <<groups, setupButtons>>
    /\ UNCHANGED <<botVersion, learned_responses, nextId, lastTaught, setupStates, fed,
                   conversationCache, now, putLog, cacheOut, idleVars>>

\* A plausible slip: fields beyond the expected ones are let through.
wellFormedAtLeast(parts, n) == Len(parts) >= n

\* parts.length !== n is answered with the format hint.
wellFormed(parts, n) == Len(parts) = n

\* /quicksetup <input> (first definition only).
handleQuickSetup(chatId, chatType, status, input) ==
    /\ botVersion = 1
    /\ LET parts == mapTrim(split(input, "|"))
       IN IF chatType = "private"
          THEN /\ outbox' = Note("groups_only", chatId)
               /\ UNCHANGED groups
          ELSE IF ~isAdminStatus(status)
          THEN /\ outbox' = Note("denied", chatId)
               /\ UNCHANGED groups
          ELSE IF ~wellFormed(parts, 4)
          THEN /\ outbox' = Note("format", chatId)
               /\ UNCHANGED groups
          ELSE /\ groups' = updateGroupConfig(groups, chatId,
                               [purpose |-> Val(parts[1]), tone |-> Val(parts[2]),
                                rules |-> Val(parseRules(parts[3])),
                                triggers |-> Val(parseTriggers(parts[4]))])
               /\ outbox' = Note("setup_complete", chatId)
    /\ UNCHANGED <<botVersion, learned_responses, nextId, lastTaught, memoryVars, idleVars>>

\* /train <input>
handleTrain(chatId, status, input) ==
    LET parts == split(input, "|")
        question == trim(parts[1])
        answer == trim(parts[2])
        done == addLearnedResponse(learned_responses, nextId, chatId,
                                   question, answer, "manual")
    IN /\ IF ~isAdminStatus(status)
          THEN /\ outbox' = Note("denied", chatId)
               /\ UNCHANGED <<learned_responses, nextId, lastTaught>>
          ELSE IF ~wellFormed(parts, 2)
          THEN /\ outbox' = Note("format", chatId)
               /\ UNCHANGED <<learned_responses, nextId, lastTaught>>
          ELSE /\ canAdd(learned_responses, nextId, chatId, question)
               /\ learned_responses' = done.rows
               /\ nextId' = done.nextId
               /\ lastTaught' = writtenId(learned_responses, nextId, chatId, question)
               /\ outbox' = Note("learned", chatId)
       /\ UNCHANGED <<botVersion, groups, memoryVars, idleVars>>

\* /forget <keyword>
handleForget(chatId, status, keyword) ==
    LET done == forgetLearnedData(learned_responses, chatId, keyword)
    IN /\ IF ~isAdminStatus(status)
          THEN /\ outbox' = Note("denied", chatId)
               /\ UNCHANGED learned_responses
          ELSE /\ learned_responses' = done.rows
               /\ outbox' = Msg("forgot", chatId, 0, done.changes, FALSE)
       /\ UNCHANGED <<botVersion, groups, nextId, lastTaught, memoryVars, idleVars>>

\* callback_query feedback_<sentiment>_<id>: the id is the one the buttons
\* were made with (responseId || messageId), an integer either way, and
\* UPDATE ... WHERE id = ? finds the row with that number.  The callback is
\* answered first ("Thanks" / "I'll improve"); the outbox keeps with it the
\* confidence the row had when the callback arrived (n, 0 when no row).
handleFeedback(sentiment, id) ==
    /\ outbox' = Msg(IF sentiment = "good" THEN "thanks" ELSE "noted", 0, id,
                     IF id \in DOMAIN learned_responses
                     THEN learned_responses[id].confidence ELSE 0,
                     FALSE)
    /\ learned_responses' =
           updateResponseConfidence(learned_responses, id, sentiment = "good")
    /\ UNCHANGED <<botVersion, groups, nextId, lastTaught, memoryVars, idleVars>>

\* Some row of the group matches the text, exactly or as a substring,
\* whatever its confidence.
matchesText(tbl, groupId, text) ==
    \E id \in DOMAIN tbl :
        /\ tbl[id].group_id = groupId
        /\ Like(toLowerCase(text), <<"%">> \o toLowerCase(tbl[id].question) \o <<"%">>)

\* A plausible slip: a failed completion call is logged and nothing is sent.
generateAIResponseSilent(chatId, text, outcome, id, n, skipped) ==
    outbox' = CASE outcome = "success" ->
                     [Msg("ai", chatId, id, n, skipped)
                        EXCEPT !.stored = storeInteraction(chatId, text, "ai", "ai")]
                [] OTHER -> outbox

\* generateAIResponse: ai.getResponse(text, systemContext) is called without
\* a groupId, so nothing is cached.  The completion call succeeds, answers
\* without success/result (getResponse returns null and nothing is sent), or
\* fails (getResponse returns a fallback message).
\* What getResponse returned is sent and, in the same if (aiResponse),
\* stored with storeInteraction(chatId, text, aiResponse, 'ai', ...): the
\* outbox keeps the row with the message.
generateAIResponse(chatId, text, outcome, id, n, skipped) ==
    outbox' = CASE outcome = "success" ->
                     [Msg("ai", chatId, id, n, skipped)
                        EXCEPT !.stored = storeInteraction(chatId, text, "ai", "ai")]
                [] outcome = "malformed" -> outbox
                [] OTHER ->
                     [Msg("fallback", chatId, id, n, skipped)
                        EXCEPT !.stored = storeInteraction(chatId, text, "fallback", "ai")]

\* A plausible slip: the learned answer is sent whenever one is retrieved.
useLearnedAlways(row) == TRUE

\* learnedResponse && learnedResponse.confidence > 0.7
useLearned(row) == row.confidence > CONF_TRUST

\* A plausible slip: the pause flag is not looked at.
gateOpenIgnoresPause(tbl, chatId) ==
    /\ chatId \in DOMAIN tbl
    /\ tbl[chatId].setup_complete

\* handleGroupMessage goes on when the group has a row, is set up and is
\* not paused (if (!group || !group.setup_complete) return; if (group.paused) return).
gateOpen(tbl, chatId) ==
    /\ chatId \in DOMAIN tbl
    /\ tbl[chatId].setup_complete
    /\ ~tbl[chatId].paused

\* handleGroupMessage once shouldRespond has said yes.  An administrator's
\* reply to a message teaches that message's text as the question (the
\* first definition only when it has a text); then the learned response is
\* looked up and sent, or the completion service is asked.
groupReply(chatId, status, msg, outcome) ==
    LET learns == /\ isAdminStatus(status)
                  /\ msg.reply_to.present
                  /\ msg.reply_to.has_text
                  /\ (botVersion = 1 => msg.reply_to.text # <<>>)
        done == IF learns
                THEN addLearnedResponse(learned_responses, nextId, chatId,
                                        msg.reply_to.text, msg.text, "admin")
                ELSE [rows |-> learned_responses, nextId |-> nextId]
        found == findLearnedResponse(done.rows, chatId, msg.text)
    IN /\ learns => canAdd(learned_responses, nextId, chatId, msg.reply_to.text)
       /\ nextId' = done.nextId
       /\ lastTaught' = IF learns
                        THEN writtenId(learned_responses, nextId, chatId,
                                       msg.reply_to.text)
                        ELSE lastTaught
       /\ IF found = {}
          THEN /\ learned_responses' = done.rows
               /\ generateAIResponse(chatId, msg.text, outcome, 0, 0,
                                     matchesText(done.rows, chatId, msg.text))
          ELSE \E id \in found :
                  IF useLearned(done.rows[id])
                  THEN /\ done.rows[id].usage_count < MaxUsage
                       /\ learned_responses' = incrementResponseUsage(done.rows, id)
                       /\ outbox' = Msg("answer", chatId, id,
                                        done.rows[id].confidence, FALSE)
                  ELSE /\ learned_responses' = done.rows
                       /\ generateAIResponse(chatId, msg.text, outcome, id,
                                             done.rows[id].confidence, FALSE)

\* A group message that is not a command (handleMessage -> handleGroupMessage)
\* and that gets past the gate and shouldRespond.
handleGroupMessage(chatId, status, msg, outcome) ==
    /\ gateOpen(groups, chatId)
    /\ shouldRespondOf(botVersion, msg, groups[chatId])
    /\ groupReply(chatId, status, msg, outcome)
    /\ UNCHANGED <<botVersion, groups, memoryVars, idleVars>>

\* handleMessage for a text of a group chat that is not a command, whatever
\* the state of the group: handleGroupMessage returns at once when the gate
\* is closed or shouldRespond says no.  inbox keeps the message and whether
\* the gate was closed when it came.
handleMessage(chatId, status, msg, outcome) ==
    /\ inbox' = [chat |-> chatId, text |-> msg.text,
                 gated |-> ~gateOpen(groups, chatId)]
    /\ IF gateOpen(groups, chatId) /\ shouldRespondOf(botVersion, msg, groups[chatId])
       THEN groupReply(chatId, status, msg, outcome)
       ELSE UNCHANGED <<learned_responses, nextId, outbox, lastTaught>>
    /\ UNCHANGED <<botVersion, groups, memoryVars, simVars, trigVars, teaching, asyncVars>>

\* /export: the group's data is sent as a document; nothing is written.
handleExport(chatId, status) ==
    /\ outbox' = IF ~isAdminStatus(status)
                 THEN Note("denied", chatId)
                 ELSE Note("export", chatId)
    /\ UNCHANGED <<botVersion, groups, learned_responses, nextId, lastTaught,
                   memoryVars, idleVars>>

\* /pause and /resume
handlePause(chatId, status) ==
    /\ IF ~isAdminStatus(status)
       THEN /\ outbox' = Note("denied", chatId)
            /\ UNCHANGED groups
       ELSE /\ groups' = togglePause(groups, chatId, TRUE)
            /\ outbox' = Note("paused", chatId)
    /\ UNCHANGED <<botVersion, learned_responses, nextId, lastTaught, memoryVars, idleVars>>

handleResume(chatId, status) ==
    /\ IF ~isAdminStatus(status)
       THEN /\ outbox' = Note("denied", chatId)
            /\ UNCHANGED groups
       ELSE /\ groups' = togglePause(groups, chatId, FALSE)
            /\ outbox' = Note("resumed", chatId)
    /\ UNCHANGED <<botVersion, learned_responses, nextId, lastTaught, memoryVars, idleVars>>

\* No button pressed yet; no getCachedResponse call yet; no ratio computed.
NotFed == [group |-> 0, replies |-> << >>, replaced |-> FALSE]
NoGet == [group |-> 0, query |-> << >>, found |-> FALSE, response |-> 0, at |-> 0]
NoRatio == Ratio(0, 0)

\* The process is started again with either definition of the class: the
\* tables stay, the Maps kept in memory are new.
Restart(version) ==
    /\ botVersion' = version
    /\ setupStates' = << >>
    /\ conversationCache' = << >>
    /\ fed' = [u \in Users |-> NotFed]
    /\ putLog' = [g \in Groups |-> << >>]
    /\ UNCHANGED <<groups, learned_responses, nextId, outbox, lastTaught, setupButtons,
                   now, cacheOut, idleVars>>

(***************************************************************************)
(* Initial conditions                                                      *)
(***************************************************************************)
MemoryInit ==
    /\ setupStates = << >>
    /\ setupButtons = {}
    /\ fed = [u \in Users |-> NotFed]
    /\ conversationCache = << >>
    /\ now = 0
    /\ putLog = [g \in Groups |-> << >>]
    /\ cacheOut = NoGet

NoInbox == [chat |-> 0, text |-> << >>, gated |-> FALSE]

\* Two /train handlers may be running at a time; one that is not between
\* its SELECT and its write holds nothing.
Calls == {1, 2}
NoTeach == [pc |-> "idle", group |-> 0, question |-> << >>, answer |-> << >>,
            existing |-> 0]

NoData == [purpose |-> Null, tone |-> Null, rules |-> Null, triggers |-> Null]

\* No answer with buttons, no setup reply under way.
NoFeedback == [shown |-> 0, start |-> 0, pressed |-> << >>,
               calls |-> [c \in Calls |->
                            [pc |-> "idle", sentiment |-> "none", id |-> 0, seen |-> 0]]]
NoFlow == [pc |-> "idle", user |-> 0, groupId |-> 0, data |-> NoData, stored |-> FALSE]
AsyncInit ==
    /\ feedback = NoFeedback
    /\ flow = [c \in Calls |-> NoFlow]

TablesInit ==
    /\ groups = << >>
    /\ learned_responses = << >>
    /\ nextId = 1
    /\ lastTaught = 0
    /\ outbox = NoMsg

IdleInit ==
    /\ simA = << >>
    /\ simB = << >>
    /\ simOut = NoRatio
    /\ trigIn = [msg |-> [text |-> << >>, reply_to |-> NoReply],
                 triggers |-> << >>, version |-> 1]
    /\ trigOut = None
    /\ inbox = NoInbox
    /\ teaching = [c \in Calls |-> NoTeach]
    /\ AsyncInit

\* Group 1 as /quicksetup p|t|none|hi leaves it (SpecConfig reaches it).
QuickSetupHi == <<"p","|","t","|","n","o","n","e","|","h","i">>
ConfiguredGroups ==
    updateGroupConfig(addGroup(<< >>, 1), 1,
        [purpose |-> Val(<<"p">>), tone |-> Val(<<"t">>),
         rules |-> Val(parseRules(<<"n","o","n","e">>)),
         triggers |-> Val(parseTriggers(T_hi))])

ConfiguredInit ==
    /\ botVersion \in {1, 2}
    /\ groups = ConfiguredGroups
    /\ learned_responses = << >>
    /\ nextId = 1
    /\ lastTaught = 0
    /\ outbox = NoMsg
    /\ MemoryInit
    /\ IdleInit

(***************************************************************************)
(* Spec: the orchestrator and the feedback loop over group 1               *)
(***************************************************************************)
T_hiyo == <<"h","i"," ","y","o">>

TrainHi == { <<"h","i","|","a">>,          \* hi|a
             <<"H","i","|"," ","b">> }     \* Hi| b

GroupMessages ==
    { [text |-> T_hi, reply_to |-> NoReply],
      [text |-> T_hiyo, reply_to |-> NoReply],
      [text |-> Mention, reply_to |-> NoReply],
      [text |-> T_hi, reply_to |-> ReplyTo(FALSE, T_Hi)] }

Outcomes == {"success", "malformed", "error"}
Sentiments == {"good", "bad"}

Init == ConfiguredInit

Next ==
    \/ \E st \in Statuses, input \in TrainHi : handleTrain(1, st, input)
    \/ \E sentiment \in Sentiments, id \in 1..MaxId : handleFeedback(sentiment, id)
    \/ \E st \in {"administrator", "member"}, msg \in GroupMessages,
          outcome \in Outcomes :
           handleGroupMessage(1, st, msg, outcome)

Spec == Init /\ [][Next]_vars

(***************************************************************************)
(* Properties of Spec                                                      *)
(***************************************************************************)
Replies == {"answer", "ai", "fallback"}

\* C2: the confidence of every stored entry stays within [0, 1] whatever
\* feedback arrives, and negative feedback on an entry at 0, like positive
\* feedback on an entry at 1, leaves its confidence unchanged.
C2_ConfidenceClamped ==
    /\ [](\A id \in DOMAIN learned_responses :
            /\ learned_responses[id].confidence >= 0
            /\ learned_responses[id].confidence <= CONF_INITIAL)
    /\ [][\A id \in DOMAIN learned_responses :
            /\ (handleFeedback("bad", id) /\ learned_responses[id].confidence = 0)
                   => learned_responses'[id].confidence = 0
            /\ (handleFeedback("good", id)
                    /\ learned_responses[id].confidence = CONF_INITIAL)
                   => learned_responses'[id].confidence = CONF_INITIAL]_vars

\* Negative feedback has just arrived for an entry already at 0.
C2_Witness ==
    /\ outbox.kind = "noted"
    /\ outbox.id \in DOMAIN learned_responses
    /\ outbox.n = 0
    /\ learned_responses[outbox.id].confidence = 0

\* usage_count of a row, 0 for a row that is not stored.
usageOf(tbl, id) == IF id \in DOMAIN tbl THEN tbl[id].usage_count ELSE 0

\* C3: a learned answer is sent only for an entry retrieved with confidence
\* above 0.7; an entry retrieved with confidence in (0.5, 0.7] is not sent,
\* its use is not recorded, and the message goes on to the completion path.
C3_TrustedOnly ==
    /\ [](outbox.kind = "answer" => outbox.n > CONF_TRUST)
    /\ [][\A id \in DOMAIN learned_responses' :
            usageOf(learned_responses', id) # usageOf(learned_responses, id)
                => /\ learned_responses'[id].confidence > CONF_TRUST
                   /\ outbox'.kind = "answer"
                   /\ outbox'.id = id]_vars
    /\ [](outbox.kind \in {"ai", "fallback"} /\ outbox.id # 0
             => outbox.n <= CONF_TRUST)

\* An entry of confidence in (0.5, 0.7] was retrieved and the completion
\* service answered instead.
C3_Witness ==
    /\ outbox.kind = "ai"
    /\ outbox.id \in DOMAIN learned_responses
    /\ outbox.n > CONF_RETRIEVE
    /\ outbox.n <= CONF_TRUST

\* C4: retrieval never returns an entry whose confidence is 0.5 or less, by
\* exact or by fuzzy match; feedback deletes nothing, so such an entry stays
\* stored, and every stored entry whose confidence is above 0.5 (again) is
\* returned for its own question.
C4_DormantNotRetrieved ==
    /\ [](outbox.kind \in Replies /\ outbox.id # 0 => outbox.n > CONF_RETRIEVE)
    /\ [](\A id \in DOMAIN learned_responses :
            learned_responses[id].confidence > CONF_RETRIEVE
                => findLearnedResponse(learned_responses,
                                       learned_responses[id].group_id,
                                       learned_responses[id].question) # {})
    /\ [][\A sentiment \in Sentiments, id \in 1..MaxId :
            handleFeedback(sentiment, id)
                => DOMAIN learned_responses' = DOMAIN learned_responses]_vars

\* A message matched a stored entry, the entry was passed over because of
\* its confidence, and it is still stored with a confidence of 0.5 or less.
C4_Witness ==
    /\ outbox.kind = "ai"
    /\ outbox.id = 0
    /\ outbox.skipped
    /\ \E id \in DOMAIN learned_responses :
           learned_responses[id].confidence <= CONF_RETRIEVE

\* C16: one feedback event on a stored entry changes its confidence to
\* min(100, c + 10) when positive and to max(0, c - 15) when negative, and
\* changes no other field of the entry and no other entry.
C16_FeedbackStep ==
    [][\A sentiment \in Sentiments, id \in DOMAIN learned_responses :
          handleFeedback(sentiment, id) =>
              learned_responses' =
                  [learned_responses EXCEPT ![id] =
                      [@ EXCEPT !.confidence =
                          IF sentiment = "good"
                          THEN (IF @ + 10 > 100 THEN 100 ELSE @ + 10)
                          ELSE (IF @ - 15 < 0 THEN 0 ELSE @ - 15)]]]_vars

\* Negative feedback has just taken an entry from 1.0 to 0.85.
C16_Witness ==
    /\ outbox.kind = "noted"
    /\ outbox.id \in DOMAIN learned_responses
    /\ outbox.n = 100
    /\ learned_responses[outbox.id].confidence = 85

\* C19: an answer that came from the completion service has been put into
\* the cache of the group it was sent to (from where a near-duplicate
\* question within the hour would be served).
C19_ServiceAnswersCached ==
    outbox.kind = "ai" =>
        /\ outbox.chat \in DOMAIN conversationCache
        /\ conversationCache[outbox.chat] # << >>

(***************************************************************************)
(* SpecStore: teaching in group 1                                          *)
(***************************************************************************)
TrainInputs == { <<"h","i","|","a">>,          \* hi|a
                 <<"H","i","|"," ","b">>,      \* Hi| b
                 <<"y","o","|","a">>,          \* yo|a
                 T_hi }                        \* no separator

\* An administrator answers "hi" to a member's message "Hi".
AdminReply == [text |-> T_hi, reply_to |-> ReplyTo(FALSE, T_Hi)]

InitStore == ConfiguredInit

NextStore ==
    \/ \E st \in Statuses, input \in TrainInputs : handleTrain(1, st, input)
    \/ \E id \in 1..MaxId : handleFeedback("bad", id)
    \/ \E outcome \in Outcomes : handleGroupMessage(1, "administrator", AdminReply, outcome)

SpecStore == InitStore /\ [][NextStore]_vars

\* The rows of group groupId whose question is `question`, case ignored.
rowsOf(tbl, groupId, question) ==
    {id \in DOMAIN tbl : /\ tbl[id].group_id = groupId
                         /\ toLowerCase(tbl[id].question) = toLowerCase(question)}

\* After teaching (question, answer) from `source`: one row for the question,
\* holding the answer, confidence 1.0 and the source; when a row was there
\* before, it is the same row and no row was added.
taughtAs(groupId, question, answer, source) ==
    /\ \E id \in rowsOf(learned_responses', groupId, question) :
           /\ learned_responses'[id].answer = answer
           /\ learned_responses'[id].confidence = CONF_INITIAL
           /\ learned_responses'[id].learned_from = source
    /\ rowsOf(learned_responses, groupId, question) # {}
           => /\ DOMAIN learned_responses' = DOMAIN learned_responses
              /\ rowsOf(learned_responses', groupId, question)
                     = rowsOf(learned_responses, groupId, question)

\* C1: teaching is an upsert keyed by the case-insensitive question.  No
\* group ever holds two entries for one question, and teaching a question
\* again overwrites the answer of its entry, resets the confidence to 1.0
\* and sets the provenance to the new source.
C1_TeachUpsert ==
    /\ [](\A i, j \in DOMAIN learned_responses :
            (/\ learned_responses[i].group_id = learned_responses[j].group_id
             /\ toLowerCase(learned_responses[i].question)
                    = toLowerCase(learned_responses[j].question))
                => i = j)
    /\ [][\A input \in TrainInputs :
            (handleTrain(1, "administrator", input) /\ outbox'.kind = "learned")
                => taughtAs(1, trim(split(input, "|")[1]),
                            trim(split(input, "|")[2]), "manual")]_vars
    /\ [][(nextId' # nextId \/ learned_responses' # learned_responses)
             /\ outbox'.kind \in Replies
                => \E id \in DOMAIN learned_responses' :
                       /\ toLowerCase(learned_responses'[id].question)
                              = toLowerCase(AdminReply.reply_to.text)
                       /\ learned_responses'[id].answer = AdminReply.text
                       /\ learned_responses'[id].learned_from = "admin"
                       /\ learned_responses'[id].confidence = CONF_INITIAL
                       /\ Cardinality(rowsOf(learned_responses', 1,
                                             AdminReply.reply_to.text)) = 1]_vars

\* The entry made by /train hi|a was taught again by an administrator's
\* reply to "Hi": one row, the first question, the new answer and source.
C1_Witness ==
    /\ \E id \in DOMAIN learned_responses :
           /\ learned_responses[id].question = T_hi
           /\ learned_responses[id].answer = T_hi
           /\ learned_responses[id].learned_from = "admin"
           /\ learned_responses[id].confidence = CONF_INITIAL
    /\ nextId = 2

(***************************************************************************)
(* SpecForget: teaching and forgetting in group 1                          *)
(***************************************************************************)
ForgetKeywords == { <<"h">>, <<"I">>, <<"_">>, <<"%">>, T_b, T_yo }

InitForget == ConfiguredInit

NextForget ==
    \/ \E input \in TrainInputs : handleTrain(1, "creator", input)
    \/ \E st \in Statuses, keyword \in ForgetKeywords : handleForget(1, st, keyword)

SpecForget == InitForget /\ [][NextForget]_vars

\* The rows that hold the keyword as a literal substring of the question or
\* of the answer, case ignored.
literalMatches(tbl, groupId, keyword) ==
    {id \in DOMAIN tbl :
        /\ tbl[id].group_id = groupId
        /\ \/ includes(toLowerCase(tbl[id].question), toLowerCase(keyword))
           \/ includes(toLowerCase(tbl[id].answer), toLowerCase(keyword))}

\* C9: forget deletes exactly the entries of the group whose question or
\* answer contains the keyword as a literal substring, case ignored, and
\* reports how many it deleted; '%' and '_' in a keyword stand for
\* themselves.
C9_ForgetLiteral ==
    [][\A keyword \in ForgetKeywords :
         handleForget(1, "administrator", keyword)
            => /\ DOMAIN learned_responses'
                      = DOMAIN learned_responses
                            \ literalMatches(learned_responses, 1, keyword)
               /\ outbox'.n
                      = Cardinality(literalMatches(learned_responses, 1, keyword))]_vars

(***************************************************************************)
(* SpecSim: calculateSimilarity on every pair of short strings             *)
(***************************************************************************)
RECURSIVE StringsUpTo(_, _)
StringsUpTo(alphabet, n) ==
    IF n = 0 THEN {<< >>}
    ELSE LET shorter == StringsUpTo(alphabet, n - 1)
         IN shorter \cup {Append(w, c) : w \in shorter, c \in alphabet}

SimStrings == StringsUpTo({"a", "b"}, MaxSimLen)

InitSim ==
    /\ botVersion = 1
    /\ TablesInit
    /\ MemoryInit
    /\ simA \in SimStrings
    /\ simB \in SimStrings
    /\ simOut = NoRatio
    /\ trigIn = [msg |-> [text |-> << >>, reply_to |-> NoReply],
                 triggers |-> << >>, version |-> 1]
    /\ trigOut = None
    /\ inbox = NoInbox
    /\ teaching = [c \in Calls |-> NoTeach]
    /\ AsyncInit

CallCalculateSimilarity ==
    /\ simOut = NoRatio
    /\ simOut' = calculateSimilarity(simA, simB)
    /\ UNCHANGED <<botVars, setupVars, cacheVars, simA, simB, trigVars, inbox, teaching,
                   asyncVars>>

NextSim == CallCalculateSimilarity

SpecSim == InitSim /\ [][NextSim]_vars

\* C10: the similarity is symmetric, similarity(a, b) = similarity(b, a);
\* similarity(a, a) = 1 for every string a, and similarity("", "") = 1.
C10_SimilaritySymmetric ==
    simOut # NoRatio =>
        /\ RatioEq(simOut, calculateSimilarity(simB, simA))
        /\ simA = simB => simOut.num = simOut.den /\ simOut.den > 0
        /\ (simA = << >> /\ simB = << >>) => simOut = Ratio(1, 1)

\* Two strings of different lengths that share a part were compared.
C10_Witness ==
    /\ simOut # NoRatio
    /\ Len(simA) < Len(simB)
    /\ simOut.num > 0
    /\ simOut.num < simOut.den

\* The least number of insertions, deletions and substitutions of one
\* character that turn a into b.
RECURSIVE editDistance(_, _)
editDistance(a, b) ==
    IF a = << >> THEN Len(b)
    ELSE IF b = << >> THEN Len(a)
    ELSE Min3(editDistance(Tail(a), b) + 1,
              editDistance(a, Tail(b)) + 1,
              editDistance(Tail(a), Tail(b)) + (IF Head(a) = Head(b) THEN 0 ELSE 1))

\* C32: similarity(a, b) = (m - d) / m with m the greater length and d the
\* edit distance of a and b (1 when both are empty); it lies between 0 and
\* 1, and it is above 0.8 exactly when 5 * d < m.
C32_SimilarityIsEditRatio ==
    simOut # NoRatio =>
        LET m == IF Len(simA) > Len(simB) THEN Len(simA) ELSE Len(simB)
            d == editDistance(simA, simB)
        IN /\ m = 0 => simOut = Ratio(1, 1)
           /\ m > 0 => /\ RatioEq(simOut, Ratio(m - d, m))
                       /\ (RatioGt(simOut, 8, 10) <=> 5 * d < m)
           /\ simOut.den > 0
           /\ 0 <= simOut.num
           /\ simOut.num <= simOut.den

\* "aab" and "bb", or two such strings, were compared: two edits in three.
C32_Witness ==
    /\ simOut = Ratio(1, 3)
    /\ Len(simA) = 3
    /\ Len(simB) = 2

(***************************************************************************)
(* SpecTrigger: shouldRespond on a set-up group that is not paused         *)
(***************************************************************************)
TrigTexts == { T_hi, T_yo, Mention, T_yo \o <<" ">> \o Mention,
               Mention \o <<"?">>, <<"y","o","?">>, <<"@","B","o","t">>,
               <<"c","a","l","l">> }
TrigReplies == { NoReply, ReplyTo(TRUE, T_hi), ReplyTo(FALSE, T_hi) }
TrigLists == { << >>, <<T_hi>>, << <<"a","l","l">> >>, <<T_Hi, T_a>> }

\* The row of a set-up group that is not paused, with these triggers.
groupWith(triggers) ==
    [purpose |-> Val(<<"p">>), tone |-> Val(<<"t">>), rules |-> Val(<< >>),
     triggers |-> Val(triggers), setup_complete |-> TRUE, paused |-> FALSE]

InitTrigger ==
    /\ botVersion = 1
    /\ TablesInit
    /\ MemoryInit
    /\ simA = << >>
    /\ simB = << >>
    /\ simOut = NoRatio
    /\ trigIn \in [msg : [text : TrigTexts, reply_to : TrigReplies],
                   triggers : TrigLists, version : {1, 2}]
    /\ trigOut = None
    /\ inbox = NoInbox
    /\ teaching = [c \in Calls |-> NoTeach]
    /\ AsyncInit

CallShouldRespond ==
    /\ trigOut = None
    /\ trigOut' = IF shouldRespondOf(trigIn.version, trigIn.msg,
                                     groupWith(trigIn.triggers))
                  THEN "respond" ELSE "ignore"
    /\ UNCHANGED <<botVars, setupVars, cacheVars, simVars, trigIn, inbox, teaching,
                   asyncVars>>

NextTrigger == CallShouldRespond

SpecTrigger == InitTrigger /\ [][NextTrigger]_vars

\* C8: in a group that is set up and not paused, a message whose text
\* contains the bot's @handle gets the decision "respond", whatever the
\* triggers are and whether or not the text holds a question mark.
C8_MentionResponds ==
    (trigOut # None /\ includes(trigIn.msg.text, Mention)) => trigOut = "respond"

\* A mention with no question mark, no reply and no triggers was decided.
C8_Witness ==
    /\ trigOut = "respond"
    /\ includes(trigIn.msg.text, Mention)
    /\ ~includes(trigIn.msg.text, <<"?">>)
    /\ trigIn.triggers = << >>
    /\ ~trigIn.msg.reply_to.present

(***************************************************************************)
(* The cache of AIService                                                  *)
(***************************************************************************)
\* getResponse(query, systemContext, groupId) with a groupId: a successful
\* completion is cached; the response is numbered by its arrival.  Nothing
\* is cached when the completion is malformed or fails.
getResponse(query, groupId, outcome) ==
    /\ IF outcome = "success"
       THEN LET response == Len(putLog[groupId]) + 1
            IN /\ conversationCache' =
                      cacheResponse(conversationCache, groupId, query, response, now)
               /\ putLog' = [putLog EXCEPT ![groupId] =
                                Append(@, [query |-> toLowerCase(query),
                                           response |-> response,
                                           timestamp |-> now])]
       ELSE UNCHANGED <<conversationCache, putLog>>
    /\ UNCHANGED <<botVars, setupVars, now, cacheOut, idleVars>>

CallGetCachedResponse(groupId, query) ==
    /\ LET got == getCachedResponse(conversationCache, groupId, query, now)
       IN cacheOut' = [group |-> groupId, query |-> query, found |-> got.found,
                       response |-> got.response, at |-> now]
    /\ UNCHANGED <<botVars, setupVars, conversationCache, now, putLog, idleVars>>

\* Half an hour passes.
Tick ==
    /\ now < MaxTicks * (HOUR_MS \div 2)
    /\ now' = now + HOUR_MS \div 2
    /\ UNCHANGED <<botVars, setupVars, conversationCache, putLog, cacheOut, idleVars>>

InitCache ==
    /\ botVersion = 1
    /\ TablesInit
    /\ MemoryInit
    /\ IdleInit

(***************************************************************************)
(* SpecCacheFill: one query cached again and again                         *)
(***************************************************************************)
T_q == <<"q">>

NextCacheFill ==
    \/ \E outcome \in Outcomes :
          /\ Len(putLog[1]) < MaxFill
          /\ getResponse(T_q, 1, outcome)
    \/ CallGetCachedResponse(1, T_q)

SpecCacheFill == InitCache /\ [][NextCacheFill]_vars

\* The last n elements of a sequence (all of it when it is shorter).
lastOf(seq, n) ==
    IF Len(seq) <= n THEN seq ELSE SubSeq(seq, Len(seq) - n + 1, Len(seq))

\* C5: a group's cache holds at most 50 entries, and they are exactly the
\* most recently inserted ones, in insertion order: the 51st insertion
\* removes the oldest entry and no other.
C5_CacheKeepsNewest ==
    \A g \in Groups :
        /\ Len(cacheOf(conversationCache, g)) <= CACHE_LIMIT
        /\ cacheOf(conversationCache, g) = lastOf(putLog[g], CACHE_LIMIT)

\* The 51st entry has been inserted: the first is gone, the second is now
\* the oldest of 50.
C5_Witness ==
    /\ Len(putLog[1]) = CACHE_LIMIT + 1
    /\ Len(conversationCache[1]) = CACHE_LIMIT
    /\ conversationCache[1][1] = putLog[1][2]
    /\ conversationCache[1][CACHE_LIMIT] = putLog[1][CACHE_LIMIT + 1]

(***************************************************************************)
(* SpecCache: a few queries, cached and looked up as time passes           *)
(***************************************************************************)
CacheQueries == { <<"a","a","a","a","a","a">>, <<"A","a","a","a","a","a">>,
                  <<"a","a","a","a","a","b">>, <<"b","b","b","b","b","b">> }

NextCache ==
    \/ \E query \in CacheQueries, outcome \in Outcomes :
          /\ Len(putLog[1]) < MaxPuts
          /\ getResponse(query, 1, outcome)
    \/ \E query \in CacheQueries : CallGetCachedResponse(1, query)
    \/ Tick

SpecCache == InitCache /\ [][NextCache]_vars

\* C6: getCachedResponse never returns the response of an entry that is an
\* hour old or older, even when the entry's query is the requested query.
C6_NoStaleAnswer ==
    cacheOut.found =>
        \E k \in 1..Len(putLog[cacheOut.group]) :
            /\ putLog[cacheOut.group][k].response = cacheOut.response
            /\ cacheOut.at - putLog[cacheOut.group][k].timestamp < HOUR_MS

\* A query identical to the one cached exactly an hour before was looked
\* up, and nothing was returned.
C6_Witness ==
    /\ cacheOut.group \in Groups
    /\ ~cacheOut.found
    /\ Len(putLog[cacheOut.group]) = 1
    /\ putLog[cacheOut.group][1].query = cacheOut.query
    /\ cacheOut.at - putLog[cacheOut.group][1].timestamp = HOUR_MS

\* C18: a lookup returns the response of the oldest-inserted entry of the
\* group that is both similar to the query (above 0.8) and less than an
\* hour old, and returns nothing only when no entry is both; an expired
\* similar entry does not hide a fresh similar entry inserted after it.
C18_OldestFreshSimilar ==
    [][cacheOut' # cacheOut =>
         LET cache == cacheOf(conversationCache, cacheOut'.group)
             fresh == {k \in similarEntries(cache, cacheOut'.query) :
                          cacheOut'.at - cache[k].timestamp < HOUR_MS}
         IN IF fresh # {}
            THEN /\ cacheOut'.found
                 /\ cacheOut'.response = cache[Min(fresh)].response
            ELSE ~cacheOut'.found]_vars

(***************************************************************************)
(* The setup dialogue (bot.js, second definition)                          *)
(***************************************************************************)
\* Keys of the Map this.setupStates.  A Map tells the string "5" from the
\* number 5 (SameValueZero): a key is the type of the value with the user id.
StrKey(userId) == <<"string", userId>>
NumKey(userId) == <<"number", userId>>

\* The Map without a key.
mapDelete(map, key) == [k \in (DOMAIN map) \ {key} |-> map[k]]
\* The Map with a key set.
mapSet(map, key, value) ==
    [k \in (DOMAIN map) \cup {key} |-> IF k = key THEN value ELSE map[k]]


\* A plausible slip: whoever presses the button starts the adder's setup.
isAdderAnyone(from, button) == TRUE

\* query.from.id.toString() !== userId: only the user named by the button.
isAdder(from, button) == from = button.user

\* A plausible slip: a session the user already has is kept as it is.
startSetupKeepsOld(map, userId, groupId) ==
    IF StrKey(userId) \in DOMAIN map
    THEN map
    ELSE mapSet(map, StrKey(userId),
                [step |-> "purpose", groupId |-> groupId, data |-> NoData])

\* this.setupStates.set(userId, {step: 'purpose', groupId, data: {}}) with
\* the user id as data.split('_') gives it, a string.
startSetup(map, userId, groupId) ==
    mapSet(map, StrKey(userId),
           [step |-> "purpose", groupId |-> groupId, data |-> NoData])

\* callback_query with data setup_<user>_<group>, pressed by query.from.id.
\* const [, userId, groupId] = data.split('_') makes userId a string: the
\* state is stored under that string.
handleCallbackQuery(from, button) ==
    /\ botVersion = 2
    /\ button \in setupButtons
    /\ IF ~isAdder(from, button)
       THEN /\ outbox' = Note("only_adder", from)
            /\ UNCHANGED <<setupStates, fed>>
       ELSE /\ outbox' = Note("question_1", button.user)
            /\ setupStates' = startSetup(setupStates, button.user, button.group)
            /\ fed' = [fed EXCEPT ![button.user] =
                          [group |-> button.group, replies |-> << >>,
                           replaced |-> \/ StrKey(button.user) \in DOMAIN setupStates
                                        \/ NumKey(button.user) \in DOMAIN setupStates]]
    /\ UNCHANGED <<botVersion, groups, learned_responses, nextId, lastTaught, setupButtons,
                   cacheVars, idleVars>>

\* handleSetupFlow for the state found under key.
handleSetupFlow(key, userId, text) ==
    LET state == setupStates[key]
    IN CASE state.step = "purpose" ->
              /\ setupStates' = [setupStates EXCEPT ![key] =
                                    [@ EXCEPT !.data.purpose = Val(text), !.step = "tone"]]
              /\ outbox' = Note("question_2", userId)
              /\ UNCHANGED groups
         [] state.step = "tone" ->
              /\ setupStates' = [setupStates EXCEPT ![key] =
                                    [@ EXCEPT !.data.tone = Val(text), !.step = "rules"]]
              /\ outbox' = Note("question_3", userId)
              /\ UNCHANGED groups
         [] state.step = "rules" ->
              /\ setupStates' = [setupStates EXCEPT ![key] =
                                    [@ EXCEPT !.data.rules = Val(parseRules(text)),
                                              !.step = "triggers"]]
              /\ outbox' = Note("question_4", userId)
              /\ UNCHANGED groups
         [] OTHER ->
              /\ groups' = updateGroupConfig(groups, state.groupId,
                               [state.data EXCEPT !.triggers = Val(parseTriggers(text))])
              /\ outbox' = Note("setup_complete", userId)
              /\ setupStates' = mapDelete(setupStates, key)

\* handleMessage for a private text that is not a command.  msg.from.id is
\* a number: the setup flow runs when the Map has that number as a key.
\* The first definition does nothing with a private text.
handlePrivateMessage(userId, text) ==
    /\ fed[userId].group # 0 => Len(fed[userId].replies) < MaxFed
    /\ fed' = [fed EXCEPT ![userId] =
                  IF @.group # 0 THEN [@ EXCEPT !.replies = Append(@, text)] ELSE @]
    /\ IF botVersion = 2 /\ NumKey(userId) \in DOMAIN setupStates
       THEN handleSetupFlow(NumKey(userId), userId, text)
       ELSE UNCHANGED <<groups, outbox, setupStates>>
    /\ UNCHANGED <<botVersion, learned_responses, nextId, lastTaught, setupButtons,
                   cacheVars, idleVars>>

(***************************************************************************)
(* SpecSetup: a group is added and configured                              *)
(***************************************************************************)
T_p == <<"p">>
T_xy == <<"x",","," ","y">>
PrivateTexts == { T_p, T_xy }
QuickSetupInputs ==
    { QuickSetupHi,                                            \* p|t|none|hi
      <<"p","|","t">>,                                         \* p|t
      <<"p","|","t","|","N","o","n","e","|","A","L","L">>,     \* p|t|None|ALL
      <<"p","|","t","|","x",",",","," ","y","|","h","i",",">> } \* p|t|x,, y|hi,

InitSetup ==
    /\ botVersion \in {1, 2}
    /\ TablesInit
    /\ MemoryInit
    /\ IdleInit

NextSetup ==
    \/ \E status \in {"administrator", "member"} : handleChatMemberUpdate(1, 1, status)
    \/ \E from \in Users, button \in setupButtons : handleCallbackQuery(from, button)
    \/ \E userId \in Users, text \in PrivateTexts : handlePrivateMessage(userId, text)
    \/ \E chatType \in {"group", "private"}, st \in {"administrator", "member"},
          input \in QuickSetupInputs :
           handleQuickSetup(1, chatType, st, input)
    \/ \E version \in {1, 2} : Restart(version)

SpecSetup == InitSetup /\ [][NextSetup]_vars

\* C7: four replies p, t, r, g, in that order, to a fresh setup session for
\* group G leave G configured with purpose p, tone t, the rules parsed from
\* r, the triggers parsed from g and setup complete, and leave no session
\* for the user.
C7_SetupCommits ==
    \A u \in Users :
        (fed[u].group # 0 /\ Len(fed[u].replies) = 4) =>
            /\ fed[u].group \in DOMAIN groups
            /\ groups[fed[u].group].setup_complete
            /\ groups[fed[u].group].purpose = Val(fed[u].replies[1])
            /\ groups[fed[u].group].tone = Val(fed[u].replies[2])
            /\ groups[fed[u].group].rules = Val(parseRules(fed[u].replies[3]))
            /\ groups[fed[u].group].triggers = Val(parseTriggers(fed[u].replies[4]))
            /\ StrKey(u) \notin DOMAIN setupStates
            /\ NumKey(u) \notin DOMAIN setupStates

\* Group 1 is configured as the orchestrator specifications start with it,
\* whichever definition is running.
ConfiguredReached == groups = ConfiguredGroups /\ botVersion = 2

\* The session the Map holds for a user, under either kind of key.
hasSession(map, userId) ==
    StrKey(userId) \in DOMAIN map \/ NumKey(userId) \in DOMAIN map

\* C21: once a setup session exists for a user, each private text of that
\* user is handed to the setup dialogue and moves the session one step on
\* (the next question is asked, or the setup is completed).
C21_SessionRouted ==
    [][\A u \in Users :
          (/\ hasSession(setupStates, u)
           /\ Len(fed'[u].replies) = Len(fed[u].replies) + 1)
             => /\ setupStates' # setupStates
                /\ outbox'.kind \in {"question_2", "question_3", "question_4",
                                     "setup_complete"}
                /\ outbox'.chat = u]_vars

\* C22: a restart of the process between two replies loses no setup
\* session: the step, the group and the data gathered are there afterwards.
C22_SessionSurvivesRestart ==
    [][\A version \in {1, 2} : Restart(version) => setupStates' = setupStates]_vars

\* The step of the session the Map holds for a user ("none": no session),
\* and the step that follows a step.
stepOf(map, userId) ==
    IF StrKey(userId) \in DOMAIN map THEN map[StrKey(userId)].step
    ELSE IF NumKey(userId) \in DOMAIN map THEN map[NumKey(userId)].step
    ELSE "none"
stepAfter(step) ==
    CASE step = "purpose" -> "tone"
      [] step = "tone" -> "rules"
      [] step = "rules" -> "triggers"
      [] OTHER -> "none"

\* C33: each private text of a user who has a setup session moves the
\* session exactly one step on, in the order purpose, tone, rules, triggers,
\* complete, and changes the group's configuration only when it is the
\* reply to the triggers question.
C33_OneStepPerReply ==
    [][\A u \in Users :
          (/\ hasSession(setupStates, u)
           /\ Len(fed'[u].replies) = Len(fed[u].replies) + 1)
             => /\ stepOf(setupStates', u) = stepAfter(stepOf(setupStates, u))
                /\ groups' # groups => stepOf(setupStates, u) = "triggers"]_vars

\* No private text ever moves a session back or over a step, and none
\* changes a group's configuration before the triggers step.
StepNeverSkips ==
    [][\A u \in Users :
          Len(fed'[u].replies) = Len(fed[u].replies) + 1
             => /\ stepOf(setupStates', u) \in
                       {stepOf(setupStates, u), stepAfter(stepOf(setupStates, u))}
                /\ groups' # groups => stepOf(setupStates, u) = "triggers"]_vars

(***************************************************************************)
(* SpecSession: two users, two groups, the DONE buttons                    *)
(***************************************************************************)
InitSession ==
    /\ botVersion = 2
    /\ TablesInit
    /\ MemoryInit
    /\ IdleInit

NextSession ==
    \/ \E chatId \in Groups, from \in Users :
           handleChatMemberUpdate(chatId, from, "administrator")
    \/ \E from \in Users, button \in setupButtons : handleCallbackQuery(from, button)
    \/ \E userId \in Users : handlePrivateMessage(userId, T_p)
    \/ Restart(2)

SpecSession == InitSession /\ [][NextSession]_vars

\* The session of a user as the Map holds it, under either kind of key.
sessionOf(map, userId) ==
    [str |-> IF StrKey(userId) \in DOMAIN map THEN {map[StrKey(userId)]} ELSE {},
     num |-> IF NumKey(userId) \in DOMAIN map THEN {map[NumKey(userId)]} ELSE {}]

\* C23: a user never has two sessions, and starting setup when the user
\* has a session leaves the user with one fresh session: step purpose, the
\* group of the button pressed, no data; the user is asked question 1.
C23_OneFreshSession ==
    [][/\ \A u \in Users :
             ~(StrKey(u) \in DOMAIN setupStates' /\ NumKey(u) \in DOMAIN setupStates')
       /\ \A button \in setupButtons :
             (handleCallbackQuery(button.user, button)
                 /\ hasSession(setupStates, button.user))
               => /\ sessionOf(setupStates', button.user) =
                        [str |-> {[step |-> "purpose", groupId |-> button.group,
                                   data |-> NoData]},
                         num |-> {}]
                  /\ outbox' = Note("question_1", button.user)]_vars

\* User 1, who had a session for another group and had written to the bot,
\* pressed the button of group 2: the session is for group 2.
C23_Witness ==
    /\ fed[1].replaced
    /\ fed[1].group = 2
    /\ StrKey(1) \in DOMAIN setupStates
    /\ setupStates[StrKey(1)].groupId = 2
    /\ [user |-> 1, group |-> 1] \in setupButtons

\* C24: nothing user B does (a private text, a button pressed) changes or
\* creates the session of another user A.
C24_OwnerOnly ==
    [][\A a \in Users : \A b \in Users \ {a} :
          /\ handlePrivateMessage(b, T_p)
                => sessionOf(setupStates', a) = sessionOf(setupStates, a)
          /\ \A button \in setupButtons :
                handleCallbackQuery(b, button)
                   => sessionOf(setupStates', a) = sessionOf(setupStates, a)]_vars

\* User 2 pressed the button of user 1, who has no session.
C24_Witness ==
    /\ outbox = Note("only_adder", 2)
    /\ \E button \in setupButtons : button.user = 1
    /\ ~hasSession(setupStates, 1)

(***************************************************************************)
(* SpecFlow: handleSetupFlow between its awaits                            *)
(***************************************************************************)
\* handleSetupFlow(msg) from its entry to its first await, for the session
\* this.setupStates.get(msg.from.id) returns.  The steps purpose, tone and
\* rules change the state object and send the next question.  The step
\* triggers sets state.data.triggers and calls updateGroupConfig with
\* state.groupId and the fields state.data has at that moment; the step and
\* the session stay as they are while the UPDATE is awaited.
flowReply(c, userId, text) ==
    LET key == NumKey(userId)
        state == setupStates[key]
    IN /\ flow[c].pc = "idle"
       /\ key \in DOMAIN setupStates
       /\ Len(fed[userId].replies) < MaxFed + 1
       /\ fed' = [fed EXCEPT ![userId].replies = Append(@, text)]
       /\ CASE state.step = "purpose" ->
                 /\ setupStates' = [setupStates EXCEPT ![key] =
                                       [@ EXCEPT !.data.purpose = Val(text), !.step = "tone"]]
                 /\ outbox' = Note("question_2", userId)
                 /\ UNCHANGED flow
            [] state.step = "tone" ->
                 /\ setupStates' = [setupStates EXCEPT ![key] =
                                       [@ EXCEPT !.data.tone = Val(text), !.step = "rules"]]
                 /\ outbox' = Note("question_3", userId)
                 /\ UNCHANGED flow
            [] state.step = "rules" ->
                 /\ setupStates' = [setupStates EXCEPT ![key] =
                                       [@ EXCEPT !.data.rules = Val(parseRules(text)),
                                                 !.step = "triggers"]]
                 /\ outbox' = Note("question_4", userId)
                 /\ UNCHANGED flow
            [] OTHER ->
                 /\ setupStates' = [setupStates EXCEPT ![key] =
                                       [@ EXCEPT !.data.triggers = Val(parseTriggers(text))]]
                 /\ flow' = [flow EXCEPT ![c] =
                                [pc |-> "write", user |-> userId, groupId |-> state.groupId,
                                 data |-> [state.data EXCEPT
                                              !.triggers = Val(parseTriggers(text))],
                                 stored |-> FALSE]]
                 /\ UNCHANGED outbox
       /\ UNCHANGED <<botVersion, groups, learned_responses, nextId, lastTaught,
                      setupButtons, cacheVars, simVars, trigVars, inbox, teaching, feedback>>

\* The UPDATE of updateGroupConfig.  When the statement fails (ok = FALSE)
\* the catch of updateGroupConfig logs the error and the call returns as
\* usual; when the group has no row the statement changes nothing.
flowWrite(c, ok) ==
    /\ flow[c].pc = "write"
    /\ groups' = IF ok THEN updateGroupConfig(groups, flow[c].groupId, flow[c].data)
                 ELSE groups
    /\ flow' = [flow EXCEPT ![c].pc = "summary",
                            ![c].stored = ok /\ flow[c].groupId \in DOMAIN groups]
    /\ UNCHANGED <<botVersion, learned_responses, nextId, outbox, lastTaught, setupVars,
                   cacheVars, simVars, trigVars, inbox, teaching, feedback>>

\* The rest of the step triggers: the summary is sent and
\* this.setupStates.delete(userId) is called.
flowSummary(c) ==
    /\ flow[c].pc = "summary"
    /\ outbox' = Note("setup_complete", flow[c].user)
    /\ setupStates' = mapDelete(setupStates, NumKey(flow[c].user))
    /\ flow' = [flow EXCEPT ![c].pc = "done"]
    /\ UNCHANGED <<botVersion, groups, learned_responses, nextId, lastTaught,
                   setupButtons, fed, cacheVars, simVars, trigVars, inbox, teaching,
                   feedback>>

\* handleSetupFlow is entered for user 1, whose session for group 1 the Map
\* returns.  Group 1 has the row addGroup made, or none (addGroup logs a
\* failed INSERT and goes on).
InitFlow ==
    /\ botVersion = 2
    /\ groups \in { addGroup(<< >>, 1), << >> }
    /\ learned_responses = << >>
    /\ nextId = 1
    /\ lastTaught = 0
    /\ outbox = Note("question_1", 1)
    /\ setupStates = mapSet(<< >>, NumKey(1),
                            [step |-> "purpose", groupId |-> 1, data |-> NoData])
    /\ setupButtons = {[user |-> 1, group |-> 1]}
    /\ fed = [u \in Users |-> IF u = 1 THEN [NotFed EXCEPT !.group = 1] ELSE NotFed]
    /\ conversationCache = << >>
    /\ now = 0
    /\ putLog = [g \in Groups |-> << >>]
    /\ cacheOut = NoGet
    /\ IdleInit

NextFlow ==
    \/ \E c \in Calls, userId \in Users, text \in PrivateTexts : flowReply(c, userId, text)
    \/ \E c \in Calls, ok \in BOOLEAN : flowWrite(c, ok)
    \/ \E c \in Calls : flowSummary(c)

SpecFlow == InitFlow /\ [][NextFlow]_vars

\* The replies a session has consumed when it is at a step.
repliesAt(step) ==
    CASE step = "purpose" -> 0
      [] step = "tone" -> 1
      [] step = "rules" -> 2
      [] OTHER -> 3

FlowStepPerReply ==
    \A u \in Users :
        (NumKey(u) \in DOMAIN setupStates
            /\ setupStates[NumKey(u)].step # "triggers")
          => Len(fed[u].replies) = repliesAt(setupStates[NumKey(u)].step)

StoredWhenWritten ==
    [][\A c \in Calls :
          (/\ NumKey(flow[c].user) \in DOMAIN setupStates
           /\ NumKey(flow[c].user) \notin DOMAIN setupStates'
           /\ flow[c].pc = "summary"
           /\ flow[c].stored)
             => /\ groups'[flow[c].groupId].setup_complete
                /\ groups'[flow[c].groupId].purpose = flow[c].data.purpose
                /\ groups'[flow[c].groupId].tone = flow[c].data.tone
                /\ groups'[flow[c].groupId].rules = flow[c].data.rules]_vars

(***************************************************************************)
(* Parsing of rules and triggers                                           *)
(***************************************************************************)
\* The pieces of a comma-separated text, each trimmed, without the empty ones.
piecesOf(text) == SelectSeq(mapTrim(split(text, ",")), LAMBDA piece : piece # << >>)

\* The fields of a well-formed /quicksetup input.
fieldsOf(input) == mapTrim(split(input, "|"))

\* C11: a rules text that equals "none" in any letter case gives an empty
\* rule set; any other text gives its comma-separated pieces, trimmed, in
\* order, without the empty ones.
C11_RulesParsed ==
    [][\A input \in QuickSetupInputs :
         (/\ handleQuickSetup(1, "group", "administrator", input)
          /\ outbox'.kind = "setup_complete"
          /\ 1 \in DOMAIN groups')
            => groups'[1].rules =
                   Val(IF toLowerCase(fieldsOf(input)[3]) = <<"n","o","n","e">>
                       THEN << >>
                       ELSE piecesOf(fieldsOf(input)[3]))]_vars

\* C20: a triggers text that equals "all" in any letter case gives the
\* trigger set {"all"}; any other text gives its comma-separated pieces,
\* trimmed, without the empty ones, so that no stored trigger is the empty
\* string.
C20_TriggersParsed ==
    [][\A input \in QuickSetupInputs :
         (/\ handleQuickSetup(1, "group", "administrator", input)
          /\ outbox'.kind = "setup_complete"
          /\ 1 \in DOMAIN groups')
            => /\ groups'[1].triggers =
                      Val(IF toLowerCase(fieldsOf(input)[4]) = <<"a","l","l">>
                          THEN << <<"a","l","l">> >>
                          ELSE piecesOf(fieldsOf(input)[4]))
               /\ \A k \in 1..Len(groups'[1].triggers.value) :
                      groups'[1].triggers.value[k] # << >>]_vars

(***************************************************************************)
(* The trigger decision                                                    *)
(***************************************************************************)
\* C12: the decision is "respond" exactly when (1) the text contains the
\* bot's handle, or (2) the message replies to a message of the bot, or
\* (3) the triggers are the "all" sentinel and the text contains a question
\* mark, or (4) the text contains one of the configured triggers, case
\* ignored; otherwise it is "do not respond".
C12_DecisionExact ==
    trigOut # None =>
        ((trigOut = "respond") <=>
            \/ includes(trigIn.msg.text, Mention)
            \/ (trigIn.msg.reply_to.present /\ trigIn.msg.reply_to.is_bot)
            \/ (hasAll(trigIn.triggers) /\ includes(trigIn.msg.text, <<"?">>))
            \/ \E k \in 1..Len(trigIn.triggers) :
                   includes(toLowerCase(trigIn.msg.text),
                            toLowerCase(trigIn.triggers[k])))


\* C34: with the triggers set to the "all" sentinel, a message that does
\* not mention the bot, replies to no message of the bot and holds no
\* question mark gets "do not respond", even when its text contains the
\* letters of the sentinel.
C34_SentinelNotKeyword ==
    (/\ trigOut # None
     /\ trigIn.triggers = << <<"a","l","l">> >>
     /\ ~includes(trigIn.msg.text, Mention)
     /\ ~(trigIn.msg.reply_to.present /\ trigIn.msg.reply_to.is_bot)
     /\ ~includes(trigIn.msg.text, <<"?">>))
        => trigOut = "ignore"

\* The same for the first definition of shouldRespond and the texts that do
\* not hold the letters of the sentinel.
SentinelFirstDefinition ==
    (/\ trigOut # None
     /\ trigIn.version = 1
     /\ trigIn.triggers = << <<"a","l","l">> >>
     /\ ~includes(trigIn.msg.text, Mention)
     /\ ~(trigIn.msg.reply_to.present /\ trigIn.msg.reply_to.is_bot)
     /\ ~includes(trigIn.msg.text, <<"?">>)
     /\ ~includes(toLowerCase(trigIn.msg.text), <<"a","l","l">>))
        => trigOut = "ignore"

(***************************************************************************)
(* The gate of handleGroupMessage                                          *)
(***************************************************************************)
GateMessages ==
    { [text |-> Mention, reply_to |-> NoReply],
      [text |-> T_hi, reply_to |-> NoReply],
      [text |-> T_a, reply_to |-> ReplyTo(FALSE, T_yo)] }

InitGate ==
    /\ botVersion \in {1, 2}
    /\ TablesInit
    /\ MemoryInit
    /\ IdleInit

NextGate ==
    \/ handleChatMemberUpdate(1, 1, "administrator")
    \/ handleQuickSetup(1, "group", "administrator", QuickSetupHi)
    \/ \E version \in {1, 2} : Restart(version)
    \/ \E st \in {"administrator", "member"} : handlePause(1, st)
    \/ \E st \in {"administrator", "member"} : handleResume(1, st)
    \/ handleTrain(1, "administrator", <<"h","i","|","a">>)
    \/ \E st \in {"administrator", "member"}, msg \in GateMessages,
          outcome \in Outcomes :
           handleMessage(1, st, msg, outcome)

SpecGate == InitGate /\ [][NextGate]_vars

\* Group 1 is not set up (or unknown), or is paused.
silenced == 1 \notin DOMAIN groups \/ ~groups[1].setup_complete \/ groups[1].paused

\* C13: while group 1 is not set up or is paused, a group message, a
\* mention included, leaves the learned responses and the outbox as they
\* were, and no step sends a reply (learned, completion or fallback) to
\* the group or teaches anything but /train.
C13_GatedSilent ==
    [][silenced =>
          /\ (inbox' # inbox => /\ learned_responses' = learned_responses
                                /\ nextId' = nextId
                                /\ lastTaught' = lastTaught
                                /\ outbox' = outbox)
          /\ (outbox' # outbox => outbox'.kind \notin Replies)
          /\ (learned_responses' # learned_responses => outbox'.kind = "learned")]_vars

\* A mention came to group 1 while it was set up and paused.
C13_Witness ==
    /\ inbox.gated
    /\ inbox.chat = 1
    /\ inbox.text = Mention
    /\ 1 \in DOMAIN groups
    /\ groups[1].setup_complete
    /\ groups[1].paused


(***************************************************************************)
(* SpecRetrieve: what findLearnedResponse hands to handleGroupMessage      *)
(***************************************************************************)
RetrieveTrain == { <<"h","i","|","a">>,                  \* hi|a
                   <<"h","i"," ","y","o","|","b">>,      \* hi yo|b
                   <<"_","|","b">> }                     \* _|b

RetrieveMessages ==
    { [text |-> T_hi, reply_to |-> NoReply],
      [text |-> T_hiyo, reply_to |-> NoReply] }

InitRetrieve == ConfiguredInit

NextRetrieve ==
    \/ \E input \in RetrieveTrain : handleTrain(1, "administrator", input)
    \/ handleFeedback("bad", 1)
    \/ \E msg \in RetrieveMessages, outcome \in Outcomes :
           handleMessage(1, "member", msg, outcome)

SpecRetrieve == InitRetrieve /\ [][NextRetrieve]_vars

\* The rows of the group above the retrieval threshold whose question is
\* the query, case ignored.
equalEntries(tbl, groupId, query) ==
    {id \in DOMAIN tbl : /\ tbl[id].group_id = groupId
                         /\ tbl[id].confidence > CONF_RETRIEVE
                         /\ toLowerCase(tbl[id].question) = toLowerCase(query)}

\* The rows of the group above the retrieval threshold whose question is a
\* substring of the query, case ignored.
substringEntries(tbl, groupId, query) ==
    {id \in DOMAIN tbl : /\ tbl[id].group_id = groupId
                         /\ tbl[id].confidence > CONF_RETRIEVE
                         /\ includes(toLowerCase(query), toLowerCase(tbl[id].question))}

\* The rows of a set that no other row of the set beats in confidence.
topOf(tbl, ids) == {id \in ids : \A o \in ids : tbl[o].confidence <= tbl[id].confidence}

\* A step in which the bot sent a reply to a group message: inbox' is the
\* message, outbox'.id the row retrieval gave (0: none).
replied == outbox' # outbox /\ outbox'.kind \in Replies

\* C14: retrieval gives the entry whose question equals the query (case
\* ignored, confidence > 0.5) when there is one; otherwise an entry of
\* maximal confidence among those above 0.5 whose question is a substring
\* of the query; otherwise none.
C14_RetrieveExactThenSubstring ==
    [][replied =>
         LET equal == equalEntries(learned_responses, 1, inbox'.text)
             sub   == substringEntries(learned_responses, 1, inbox'.text)
         IN IF equal # {} THEN outbox'.id \in equal
            ELSE IF sub # {} THEN outbox'.id \in topOf(learned_responses, sub)
            ELSE outbox'.id = 0]_vars

\* Retrieval as C14 words it, for the queries on which LIKE with the stored
\* question as its pattern agrees with the substring test.
RetrieveWithoutWildcards ==
    [][replied /\ partialMatches(learned_responses, 1, inbox'.text)
                      = substringEntries(learned_responses, 1, inbox'.text) =>
         LET equal == equalEntries(learned_responses, 1, inbox'.text)
             sub   == substringEntries(learned_responses, 1, inbox'.text)
         IN IF equal # {} THEN outbox'.id \in equal
            ELSE IF sub # {} THEN outbox'.id \in topOf(learned_responses, sub)
            ELSE outbox'.id = 0]_vars

\* The exact match was given although a substring match had more confidence.
ExactBeatsHigher ==
    /\ outbox.kind \in Replies
    /\ outbox.id \in DOMAIN learned_responses
    /\ learned_responses[outbox.id].question = inbox.text
    /\ \E o \in DOMAIN learned_responses :
           /\ learned_responses[o].confidence > learned_responses[outbox.id].confidence
           /\ includes(inbox.text, learned_responses[o].question)


(***************************************************************************)
(* SpecTie: two learned questions inside one message                       *)
(***************************************************************************)
TieTrain == { <<"h","i","|","a">>,       \* hi|a
              <<"y","o","|","a">>,       \* yo|a
              <<"y","o","|","b">> }      \* yo|b

InitTie == ConfiguredInit

NextTie ==
    \/ \E input \in TieTrain : handleTrain(1, "administrator", input)
    \/ \E outcome \in Outcomes :
           handleMessage(1, "member", [text |-> T_hiyo, reply_to |-> NoReply], outcome)

SpecTie == InitTie /\ [][NextTie]_vars

\* C15: when the substring fallback finds several entries at the highest
\* confidence and the entry taught last is one of them, that entry is the
\* one retrieval gives (queries for which LIKE and the substring test agree).
C15_TieMostRecent ==
    [][replied =>
         LET equal == equalEntries(learned_responses, 1, inbox'.text)
             sub   == substringEntries(learned_responses, 1, inbox'.text)
             top   == topOf(learned_responses, sub)
         IN (/\ equal = {}
             /\ partialMatches(learned_responses, 1, inbox'.text) = sub
             /\ Cardinality(top) > 1
             /\ lastTaught \in top)
                => outbox'.id = lastTaught]_vars



(***************************************************************************)
(* SpecKeep: what removes a learned response                               *)
(***************************************************************************)
KeepTrain == { <<"h","i","|","a">> }      \* hi|a

KeepKeywords == { <<"h">>, T_b }

InitKeep == ConfiguredInit

NextKeep ==
    \/ \E input \in KeepTrain : handleTrain(1, "administrator", input)
    \/ \E sentiment \in Sentiments, id \in 1..MaxId : handleFeedback(sentiment, id)
    \/ \E outcome \in Outcomes :
           handleMessage(1, "member", [text |-> T_hi, reply_to |-> NoReply], outcome)
    \/ \E keyword \in KeepKeywords : handleForget(1, "administrator", keyword)

SpecKeep == InitKeep /\ [][NextKeep]_vars

\* The (group, question) pairs the table holds, questions without case.
pairsOf(tbl) ==
    {<<tbl[id].group_id, toLowerCase(tbl[id].question)>> : id \in DOMAIN tbl}

\* C17: feedback, retrieval and usage recording remove no entry: a step
\* after which a stored (group, question) pair is gone is a /forget, and
\* every feedback step and every reply keep all the rows there were.
C17_OnlyForgetRemoves ==
    [][/\ ~(pairsOf(learned_responses) \subseteq pairsOf(learned_responses'))
            => outbox'.kind = "forgot" /\ outbox'.n > 0
       /\ (outbox' # outbox /\ outbox'.kind \in Replies \cup {"thanks", "noted"})
            => DOMAIN learned_responses \subseteq DOMAIN learned_responses']_vars

\* An entry at confidence 0 is still stored: the message that matches it
\* was answered by the completion service for want of a retrievable entry.
C17_Witness ==
    /\ outbox.kind = "ai"
    /\ outbox.skipped
    /\ inbox.text = T_hi
    /\ \E id \in DOMAIN learned_responses :
           /\ learned_responses[id].question = T_hi
           /\ learned_responses[id].confidence = 0


(***************************************************************************)
(* SpecTeach: two /train commands at a time                                *)
(***************************************************************************)
\* handleTrain of an administrator up to the first await of
\* addLearnedResponse: the SELECT has answered.
teachSelect(c, chatId, input) ==
    LET parts == split(input, "|")
        question == trim(parts[1])
        found == existingIds(learned_responses, chatId, question)
    IN /\ teaching[c].pc = "idle"
       /\ wellFormed(parts, 2)
       /\ teaching' = [teaching EXCEPT ![c] =
                          [pc |-> "selected", group |-> chatId, question |-> question,
                           answer |-> trim(parts[2]),
                           existing |-> IF found # {} THEN Min(found) ELSE 0]]
       /\ UNCHANGED <<botVars, memoryVars, simVars, trigVars, inbox, asyncVars>>

\* The rest of that handleTrain: the UPDATE or the INSERT, then the
\* confirmation.  When the statement fails (stored = FALSE) the catch of
\* addLearnedResponse logs the error and the call returns as usual.
teachWrite(c, stored) ==
    LET call == teaching[c]
        done == addLearnedResponseWrite(learned_responses, nextId, call.existing,
                                        call.group, call.question, call.answer, "manual")
    IN /\ call.pc = "selected"
       /\ IF stored
          THEN /\ call.existing = 0 => nextId <= MaxId
               /\ learned_responses' = done.rows
               /\ nextId' = done.nextId
               /\ lastTaught' = IF call.existing # 0 THEN call.existing ELSE nextId
          ELSE UNCHANGED <<learned_responses, nextId, lastTaught>>
       /\ outbox' = Note("learned", call.group)
       /\ teaching' = [teaching EXCEPT ![c] = NoTeach]
       /\ UNCHANGED <<botVersion, groups, memoryVars, simVars, trigVars, inbox, asyncVars>>

InitTeach == ConfiguredInit

NextTeach ==
    \/ \E c \in Calls, input \in TrainHi : teachSelect(c, 1, input)
    \/ \E c \in Calls, stored \in BOOLEAN : teachWrite(c, stored)

SpecTeach == InitTeach /\ [][NextTeach]_vars

C28_ConfirmedMeansStored ==
    [][\A c \in Calls :
          (/\ teaching[c].pc = "selected"
           /\ teaching'[c].pc = "idle"
           /\ outbox'.kind = "learned")
             => \E id \in DOMAIN learned_responses' :
                   /\ learned_responses'[id].group_id = teaching[c].group
                   /\ toLowerCase(learned_responses'[id].question)
                          = toLowerCase(teaching[c].question)
                   /\ learned_responses'[id].answer = teaching[c].answer]_vars

(***************************************************************************)
(* SpecCommands: the commands of administrators, sent by anyone            *)
(***************************************************************************)
CommandTrain == { <<"h","i","|","a">>,            \* hi|a
                  T_hi,                           \* hi
                  <<"h","i","|","a","|","b">> }   \* hi|a|b

CommandSetup == { QuickSetupHi,                                       \* p|t|none|hi
                  <<"p","|","t">>,                                    \* p|t
                  <<"p","|","t","|","x","|","y","o","|","b">> }       \* p|t|x|yo|b

Senders == {"administrator", "member"}

InitCommands == ConfiguredInit

NextCommands ==
    \/ \E st \in Senders, input \in CommandTrain : handleTrain(1, st, input)
    \/ \E st \in Senders : handleForget(1, st, <<"h">>)
    \/ \E st \in Senders : handlePause(1, st)
    \/ \E st \in Senders : handleResume(1, st)
    \/ \E st \in Senders : handleExport(1, st)
    \/ \E st \in Senders, input \in CommandSetup : handleQuickSetup(1, "group", st, input)
    \/ \E version \in {1, 2} : Restart(version)

SpecCommands == InitCommands /\ [][NextCommands]_vars

\* C26: /train, /forget, /pause, /resume, /export and /quicksetup sent by a
\* member who is not an administrator change no learned response and no
\* field of the group's configuration (paused included), and the sender is
\* told that only administrators may use the command.
C26_MembersDenied ==
    [][(\/ \E input \in CommandTrain : handleTrain(1, "member", input)
        \/ handleForget(1, "member", <<"h">>)
        \/ handlePause(1, "member")
        \/ handleResume(1, "member")
        \/ handleExport(1, "member")
        \/ \E input \in CommandSetup : handleQuickSetup(1, "group", "member", input))
          => /\ learned_responses' = learned_responses
             /\ groups' = groups
             /\ outbox' = Note("denied", 1)]_vars

\* A member's command was refused in a paused group that has learned
\* something.
C26_Witness ==
    /\ outbox = Note("denied", 1)
    /\ groups[1].paused
    /\ learned_responses # << >>

\* C27: a /train payload that is not two fields and a /quicksetup payload
\* that is not four, sent by an administrator, are answered with the
\* format hint and change no learned response and no field of the group's
\* configuration.
C27_MalformedRejected ==
    [][(\/ \E input \in CommandTrain :
              Len(split(input, "|")) # 2 /\ handleTrain(1, "administrator", input)
        \/ \E input \in CommandSetup :
              Len(split(input, "|")) # 4
                  /\ handleQuickSetup(1, "group", "administrator", input))
          => /\ learned_responses' = learned_responses
             /\ nextId' = nextId
             /\ groups' = groups
             /\ outbox' = Note("format", 1)]_vars

\* An administrator's malformed command was answered with the hint in a
\* group that has learned something.
C27_Witness ==
    /\ outbox = Note("format", 1)
    /\ learned_responses # << >>
    /\ groups = ConfiguredGroups

(***************************************************************************)
(* The completion service fails or answers out of shape                    *)
(***************************************************************************)
\* The message gets past the gate of group 1 and shouldRespond.
triggered(msg) == gateOpen(groups, 1) /\ shouldRespondOf(botVersion, msg, groups[1])

\* C29: when the completion call times out or fails, the triggered message
\* is answered in the group with a fallback message (unless a trusted
\* learned answer was sent and no call was made): nothing else is sent.
C29_FailureFallsBack ==
    [][\A st \in {"administrator", "member"}, msg \in GateMessages :
          (triggered(msg) /\ handleMessage(1, st, msg, "error"))
             => /\ outbox'.chat = 1
                /\ \/ outbox'.kind = "fallback"
                   \/ outbox'.kind = "answer" /\ outbox'.n > CONF_TRUST]_vars

\* The mention of the bot was answered with a fallback message.
C29_Witness ==
    /\ outbox.kind = "fallback"
    /\ outbox.chat = 1
    /\ inbox.text = Mention
    /\ ~inbox.gated

\* C30: when the completion service answers without success or result, the
\* triggered message is answered with a fallback message, as for a failure.
C30_MalformedFallsBack ==
    [][\A st \in {"administrator", "member"}, msg \in GateMessages :
          (triggered(msg) /\ handleMessage(1, st, msg, "malformed"))
             => /\ outbox'.chat = 1
                /\ \/ outbox'.kind = "fallback"
                   \/ outbox'.kind = "answer" /\ outbox'.n > CONF_TRUST]_vars


(***************************************************************************)
(* The interactions table                                                  *)
(***************************************************************************)
\* C31: every answer sent to a triggered message, the learned response of
\* an entry or the completion service's, is stored as one row of
\* interactions with the question, the answer and its source: "ai", or the
\* entry the answer came from.
C31_AnswerStored ==
    [][(outbox' # outbox /\ outbox'.kind \in {"answer", "ai", "fallback"})
          => outbox'.stored =
                storeInteraction(outbox'.chat, inbox'.text, outbox'.kind,
                                 IF outbox'.kind = "answer" THEN outbox'.id ELSE "ai")]_vars

\* The answers of the completion service, its fallback texts included, are
\* stored with the question and the source "ai".
ServiceAnswerStored ==
    [][(outbox' # outbox /\ outbox'.kind \in {"ai", "fallback"})
          => outbox'.stored =
                storeInteraction(outbox'.chat, inbox'.text, outbox'.kind, "ai")]_vars

(***************************************************************************)
(* The feedback buttons                                                    *)
(***************************************************************************)
\* addFeedbackButtons: callback_data feedback_<sentiment>_${responseId ||
\* messageId}.  responseId is the entry's id for a learned answer and null
\* (0 here) for an answer of the completion service, whose buttons then
\* carry the id of the answer message.
buttonId(messageId, responseId) == IF responseId # 0 THEN responseId ELSE messageId

\* C35: a reaction to an answer of the completion service changes the
\* confidence of no entry, whatever the id of the answer message; only a
\* reaction to a learned answer adjusts an entry, the one it came from.
C35_ServiceReactionNoEffect ==
    [][\A sentiment \in Sentiments, messageId \in 1..MaxId :
          handleFeedback(sentiment, buttonId(messageId, 0))
             => learned_responses' = learned_responses]_vars

\* A reaction to a learned answer changes no entry but the one it came from.
LearnedReactionOwnEntry ==
    [][\A sentiment \in Sentiments, messageId \in 1..MaxId, responseId \in 1..MaxId :
          handleFeedback(sentiment, buttonId(messageId, responseId))
             => \A id \in DOMAIN learned_responses :
                   id # responseId => learned_responses'[id] = learned_responses[id]]_vars

(***************************************************************************)
(* SpecReact: reactions to one learned answer, handled concurrently        *)
(***************************************************************************)
\* addFeedbackButtons for the learned answer sent last: a second after the
\* answer the two buttons are put on it.  feedback keeps the id they carry
\* and the confidence the entry has then.
addFeedbackButtons(messageId) ==
    /\ outbox.kind = "answer"
    /\ feedback.shown = 0
    /\ feedback.pressed = << >>
    /\ feedback' = [feedback EXCEPT
                       !.shown = buttonId(messageId, outbox.id),
                       !.start = learned_responses[outbox.id].confidence]
    /\ UNCHANGED <<botVars, memoryVars, simVars, trigVars, inbox, teaching, flow>>

\* handleFeedback from its entry to its first await: a button that is on
\* the answer is pressed, the callback data is split and the callback is
\* answered.  seen is the confidence the entry has at that moment.
feedbackPress(c, sentiment) ==
    /\ feedback.shown # 0
    /\ feedback.calls[c].pc = "idle"
    /\ outbox' = Msg(IF sentiment = "good" THEN "thanks" ELSE "noted", 0,
                     feedback.shown,
                     IF feedback.shown \in DOMAIN learned_responses
                     THEN learned_responses[feedback.shown].confidence ELSE 0,
                     FALSE)
    /\ feedback' = [feedback EXCEPT
                       !.pressed = Append(@, sentiment),
                       !.calls[c] = [pc |-> "answered", sentiment |-> sentiment,
                                     id |-> feedback.shown,
                                     seen |-> IF feedback.shown \in DOMAIN learned_responses
                                              THEN learned_responses[feedback.shown].confidence
                                              ELSE 0]]
    /\ UNCHANGED <<botVersion, groups, learned_responses, nextId, lastTaught, memoryVars,
                   simVars, trigVars, inbox, teaching, flow>>

\* A plausible slip: the confidence is read when the callback arrives and
\* the new value is computed from it and written back.
feedbackWriteFromSeen(tbl, call) ==
    IF call.id \in DOMAIN tbl
    THEN [tbl EXCEPT ![call.id].confidence =
             Max2(0, Min2(CONF_INITIAL,
                          call.seen + (IF call.sentiment = "good"
                                       THEN CONF_GOOD_STEP ELSE 0 - CONF_BAD_STEP)))]
    ELSE tbl

\* await this.db.updateResponseConfidence(id, sentiment === 'good'): one
\* UPDATE that reads and writes the confidence in the same statement.
feedbackWrite(tbl, call) ==
    updateResponseConfidence(tbl, call.id, call.sentiment = "good")

\* The UPDATE of a handleFeedback call (the id is never the text 'null').
feedbackUpdate(c) ==
    /\ feedback.calls[c].pc = "answered"
    /\ learned_responses' = feedbackWrite(learned_responses, feedback.calls[c])
    /\ feedback' = [feedback EXCEPT !.calls[c].pc = "updated"]
    /\ UNCHANGED <<botVersion, groups, nextId, outbox, lastTaught, memoryVars,
                   simVars, trigVars, inbox, teaching, flow>>

\* The end of a handleFeedback call: editMessageReplyMarkup with an empty
\* keyboard takes the buttons off the answer.
feedbackRemove(c) ==
    /\ feedback.calls[c].pc = "updated"
    /\ feedback' = [feedback EXCEPT !.shown = 0,
                                    !.calls[c] = NoFeedback.calls[c]]
    /\ UNCHANGED <<botVars, memoryVars, simVars, trigVars, inbox, teaching, flow>>

\* Group 1 is set up and has the entry /train hi|a leaves.
InitReact ==
    /\ botVersion \in {1, 2}
    /\ groups = ConfiguredGroups
    /\ learned_responses = addLearnedResponse(<< >>, 1, 1, T_hi, T_a, "manual").rows
    /\ nextId = 2
    /\ lastTaught = 1
    /\ outbox = Note("learned", 1)
    /\ MemoryInit
    /\ IdleInit

NextReact ==
    \/ \E st \in {"administrator", "member"}, outcome \in Outcomes :
           handleGroupMessage(1, st, [text |-> T_hi, reply_to |-> NoReply], outcome)
    \/ \E messageId \in 1..MaxId : addFeedbackButtons(messageId)
    \/ \E c \in Calls, sentiment \in Sentiments : feedbackPress(c, sentiment)
    \/ \E c \in Calls : feedbackUpdate(c)
    \/ \E c \in Calls : feedbackRemove(c)

SpecReact == InitReact /\ [][NextReact]_vars

\* The confidence after one reaction, and after a sequence of reactions
\* applied one after the other.
afterReaction(confidence, sentiment) ==
    LET moved == IF sentiment = "good" THEN confidence + 10 ELSE confidence - 15
    IN IF moved > 100 THEN 100 ELSE IF moved < 0 THEN 0 ELSE moved
RECURSIVE afterReactions(_, _)
afterReactions(confidence, sentiments) ==
    IF sentiments = << >> THEN confidence
    ELSE afterReactions(afterReaction(confidence, Head(sentiments)), Tail(sentiments))

\* The orders in which n reactions can be applied.
Orders(n) == {p \in [1..n -> 1..n] : \A i \in 1..n : \A j \in 1..n : p[i] = p[j] => i = j}

\* No handleFeedback call is between its entry and its UPDATE.
settled == \A c \in Calls : feedback.calls[c].pc # "answered"

\* C37: when the reactions to an answer of entry 1 have been handled, in
\* whatever interleaving, the entry's confidence is what applying all of
\* them one after the other, in some order, gives: no adjustment is lost.
C37_ReactionsSerial ==
    (settled /\ feedback.pressed # << >>) =>
        \E p \in Orders(Len(feedback.pressed)) :
            learned_responses[1].confidence =
                afterReactions(feedback.start,
                               [i \in 1..Len(feedback.pressed) |-> feedback.pressed[p[i]]])

\* Two thumbs-down pressed before any UPDATE ran, both handled: 1.00 - 0.30.
C37_Witness ==
    /\ settled
    /\ feedback.pressed = <<"bad", "bad">>
    /\ feedback.start = 100
    /\ learned_responses[1].confidence = 70
    /\ \A c \in Calls : feedback.calls[c].seen = 100 /\ feedback.calls[c].pc = "updated"
    /\ feedback.shown # 0

\* C40: at most one reaction to an answer takes effect: whatever is
\* pressed, and however the presses interleave, the entry's confidence is
\* moved by one reaction at most.
C40_OneReactionCounts ==
    feedback.pressed # << >> =>
        learned_responses[1].confidence \in
            { feedback.start, afterReaction(feedback.start, "good"),
              afterReaction(feedback.start, "bad") }

(***************************************************************************)
(* SpecIsolate: two groups taught, asked and cached side by side           *)
(***************************************************************************)
\* Groups 1 and 2 as /quicksetup p|t|none|hi leaves each of them.
InitIsolate ==
    /\ botVersion = 2
    /\ groups = updateGroupConfig(addGroup(ConfiguredGroups, 2), 2,
                   [purpose |-> ConfiguredGroups[1].purpose,
                    tone |-> ConfiguredGroups[1].tone,
                    rules |-> ConfiguredGroups[1].rules,
                    triggers |-> ConfiguredGroups[1].triggers])
    /\ learned_responses = << >>
    /\ nextId = 1
    /\ lastTaught = 0
    /\ outbox = NoMsg
    /\ MemoryInit
    /\ IdleInit

IsolateTrain == <<"h","i","|","a">>

\* The operations of the claim on a group: teach, forget, retrieve (a group
\* message that is answered), cache put and cache get.
operatesOn(g) ==
    \/ handleTrain(g, "administrator", IsolateTrain)
    \/ handleForget(g, "administrator", <<"h">>)
    \/ handleGroupMessage(g, "member", [text |-> T_hi, reply_to |-> NoReply], "success")
    \/ /\ Len(putLog[g]) < 1
       /\ getResponse(T_q, g, "success")
    \/ CallGetCachedResponse(g, T_q)

NextIsolate == \E g \in Groups : operatesOn(g)

SpecIsolate == InitIsolate /\ [][NextIsolate]_vars

\* The rows of a group, by id.
entriesOf(tbl, g) == [id \in {i \in DOMAIN tbl : tbl[i].group_id = g} |-> tbl[id]]

\* C39: an operation on group A (teach, forget, retrieve, cache put, cache
\* get) leaves the entries, the configuration and the cache of every other
\* group B as they were; what a retrieval or a cache lookup for A returns
\* is an entry of A, or a response cached for A.
C39_GroupsIsolated ==
    [][\A a \in Groups : \A b \in Groups \ {a} :
          operatesOn(a) =>
            /\ entriesOf(learned_responses', b) = entriesOf(learned_responses, b)
            /\ groups'[b] = groups[b]
            /\ cacheOf(conversationCache', b) = cacheOf(conversationCache, b)
            /\ (outbox' # outbox /\ outbox'.kind = "answer")
                  => learned_responses'[outbox'.id].group_id = a
            /\ (cacheOut'.group = a /\ cacheOut'.found)
                  => \E k \in 1..Len(putLog[a]) :
                        /\ putLog[a][k].response = cacheOut'.response
                        /\ RatioGt(calculateSimilarity(putLog[a][k].query,
                                                       toLowerCase(cacheOut'.query)),
                                   8, 10)]_vars

\* Group 1 forgot its entry while group 2, taught the same question, keeps
\* its own; group 2's lookup of a query only group 1 has cached found
\* nothing.
C39_Witness ==
    /\ outbox.kind = "forgot"
    /\ outbox.chat = 1
    /\ outbox.n = 1
    /\ entriesOf(learned_responses, 1) = << >>
    /\ entriesOf(learned_responses, 2) # << >>
    /\ Len(cacheOf(conversationCache, 1)) = 1
    /\ cacheOf(conversationCache, 2) = << >>
    /\ cacheOut.group = 2
    /\ ~cacheOut.found
    /\ cacheOut.query = conversationCache[1][1].query
====
